---- MODULE Spec2Model ----
(***************************************************************************)
(* Model of the prescription-label pipeline of med_ocr_mobile_app:         *)
(*   src/api/llm_parser.py  load_drug_database, get_relevant_drugs,        *)
(*                          parse_with_llm, is_ollama_available,           *)
(*                          hybrid_parse                                   *)
(*   src/api/app.py         executor, process_rotation,                    *)
(*                          preprocess_and_ocr, process_ocr_detailed       *)
(*                                                                         *)
(* A Python str is a sequence of one-character strings.  A JSON value is   *)
(* a str, or None (the one-atom sequence <<"None">>), or the float 0.85    *)
(* (the one-atom sequence <<"0.85">>); an atom of more than one character  *)
(* never equals a character, so the three kinds never collide.  A dict is  *)
(* a function from its keys to its values.                                 *)
(***************************************************************************)
EXTENDS Integers, Sequences, FiniteSets, TLC

(***************************************************************************)
(* Python str operations used by llm_parser.py                             *)
(***************************************************************************)
UpperAlpha == <<"A","B","C","D","E","F","G","H","I","J","K","L","M","N","O","P","Q","R","S","T","U","V","W","X","Y","Z">>

LowerAlpha == <<"a","b","c","d","e","f","g","h","i","j","k","l","m","n","o","p","q","r","s","t","u","v","w","x","y","z">>

\* The characters of the model in code-point order (the order sorted() uses).
CodeOrder == <<"\n"," ","#","(",")",",","-",".","/","0","1","2","3","4","5","6","7","8","9",":","A","B","C","D","E","F","G","H","I","J","K","L","M","N","O","P","Q","R","S","T","U","V","W","X","Y","Z","a","b","c","d","e","f","g","h","i","j","k","l","m","n","o","p","q","r","s","t","u","v","w","x","y","z">>

Range(s) == {s[i] : i \in DOMAIN s}

Min(a, b) == IF a <= b THEN a ELSE b

IndexIn(c, alpha) == CHOOSE i \in DOMAIN alpha : alpha[i] = c

\* str.upper() and str.lower() of each character of the model
UpperTable ==
    [c \in Range(CodeOrder) |->
        IF c \in Range(LowerAlpha) THEN UpperAlpha[IndexIn(c, LowerAlpha)] ELSE c]

LowerTable ==
    [c \in Range(CodeOrder) |->
        IF c \in Range(UpperAlpha) THEN LowerAlpha[IndexIn(c, UpperAlpha)] ELSE c]

\* str.upper(), one character
UpperChar(c) == UpperTable[c]

\* str.lower(), one character
LowerChar(c) == LowerTable[c]

\* str.upper()
Upper(s) == [i \in 1..Len(s) |-> UpperChar(s[i])]

\* str.lower()
Lower(s) == [i \in 1..Len(s) |-> LowerChar(s[i])]

\* x in y, for two str: x occurs in y as a contiguous substring
In(x, y) == \E i \in 0..(Len(y) - Len(x)) : \A j \in 1..Len(x) : y[i + j] = x[j]

\* s[:n]
Prefix(s, n) == SubSeq(s, 1, Min(n, Len(s)))

IsSpace(c) == c \in {" ", "\n"}

\* Index of the first character of s at or after i that satisfies / does not
\* satisfy IsSpace; Len(s) + 1 when there is none.
RECURSIVE SkipSpace(_, _)
SkipSpace(s, i) == IF i > Len(s) \/ ~IsSpace(s[i]) THEN i ELSE SkipSpace(s, i + 1)

RECURSIVE SkipWord(_, _)
SkipWord(s, i) == IF i > Len(s) \/ IsSpace(s[i]) THEN i ELSE SkipWord(s, i + 1)

\* str.split(): the maximal runs of non-whitespace characters, in order
RECURSIVE SplitFrom(_, _)
SplitFrom(s, i) ==
    LET b == SkipSpace(s, i)
        e == SkipWord(s, b)
    IN  IF b > Len(s) THEN <<>> ELSE <<SubSeq(s, b, e - 1)>> \o SplitFrom(s, e)

Split(s) == SplitFrom(s, 1)

\* Index of the first "\n" of s at or after i; Len(s) + 1 when there is none.
RECURSIVE NextNewline(_, _)
NextNewline(s, i) == IF i > Len(s) \/ s[i] = "\n" THEN i ELSE NextNewline(s, i + 1)

\* str.split('\n'): the lines of s, empty ones kept
RECURSIVE SplitLinesFrom(_, _)
SplitLinesFrom(s, i) ==
    LET e == NextNewline(s, i)
    IN  IF e > Len(s) THEN <<SubSeq(s, i, Len(s))>>
        ELSE <<SubSeq(s, i, e - 1)>> \o SplitLinesFrom(s, e + 1)

SplitLines(s) == SplitLinesFrom(s, 1)

\* a < b in Python's str order (code points, shorter prefix first)
RECURSIVE StrLess(_, _)
StrLess(a, b) ==
    IF a = <<>> THEN b # <<>>
    ELSE IF b = <<>> THEN FALSE
    ELSE IF a[1] = b[1] THEN StrLess(Tail(a), Tail(b))
    ELSE IndexIn(a[1], CodeOrder) < IndexIn(b[1], CodeOrder)

\* sorted(set(xs)): the distinct members of xs in ascending str order
RECURSIVE SortedOfSet(_)
SortedOfSet(S) ==
    IF S = {} THEN <<>>
    ELSE LET m == CHOOSE x \in S : \A y \in S \ {x} : StrLess(x, y)
         IN  <<m>> \o SortedOfSet(S \ {m})

SortedSet(xs) == SortedOfSet(Range(xs))

(***************************************************************************)
(* JSON values and dicts                                                   *)
(***************************************************************************)
\* Python None
None == <<"None">>

\* the float 0.85 that parse_with_llm puts under "confidence"
Conf085 == <<"0.85">>

\* str(value)
\* A JSON number json.loads turns into an int: a tag and its decimal digits
Num(digits) == <<"int:">> \o digits

IsNumber(v) == v # <<>> /\ v[1] = "int:"

Str(v) ==
    IF v = Conf085 THEN <<"0",".","8","5">>
    ELSE IF IsNumber(v) THEN Tail(v)
    ELSE v

\* bool(value): None and "" are falsy, a non-empty str and 0.85 are truthy
Truthy(v) == v # None /\ v # <<>>

NullStr == <<"n","u","l","l">>

\* dict.get(key), with None for a missing key
Get(d, k) == IF k \in DOMAIN d THEN d[k] ELSE None

EmptyDict == [k \in {} |-> None]

\* The thirteen keys of `normalized`
SchemaFields == {"patientName", "drugName", "strength", "dosage", "frequency",
                 "duration", "instructions", "rxNumber", "quantity", "refills",
                 "refillsBeforeDate", "pharmacy", "pharmacyPhone"}

EvidenceFields == {"strength", "dosage", "frequency", "duration", "quantity"}

\* The indicators of the outer test of the pharmacy rule
AddressGate == {<<"D","R",",">>, <<"D","R","I","V","E">>, <<"S","T","R","E","E","T">>,
                <<"S","T",",">>, <<"A","V","E">>, <<"R","O","A","D">>}

\* The indicators of the per-line test of the pharmacy rule
AddressLineIndicators == {<<"D","R">>, <<"S","T","R","E","E","T">>, <<"A","V","E">>,
                          <<"R","O","A","D">>}

PatientNameWindow == 200

(***************************************************************************)
(* Reference index: load_drug_database, get_relevant_drugs                 *)
(***************************************************************************)
\* What load_drug_database computes from the reference source: the sorted
\* distinct names the regex finds, or [] when the file is missing.
LoadedDrugs(file) == IF file.exists THEN SortedSet(file.matches) ELSE <<>>

\* The score get_relevant_drugs gives one reference name; ocr_chars is the
\* set of characters of ocr_upper (`char in ocr_upper`)
DrugScore(drug, ocr_upper, ocr_chars) ==
    LET drug_upper == Upper(drug)
    IN  IF In(drug_upper, ocr_upper) THEN Len(drug_upper) * 2
        ELSE Cardinality({i \in DOMAIN drug_upper : drug_upper[i] \in ocr_chars})

RelevanceFloor == 3

\* Mutant of SortByScoreDesc: the list is left in reference order
SortByScoreDesc_unsorted(xs) == xs

\* list.sort(key=score, reverse=True): stable, descending
RECURSIVE SortByScoreDesc(_)
SortByScoreDesc(xs) ==
    IF xs = <<>> THEN <<>>
    ELSE LET rest == SortByScoreDesc(SubSeq(xs, 1, Len(xs) - 1))
             x == xs[Len(xs)]
             NotBelow(y) == y.score >= x.score
             Below(y) == y.score < x.score
         IN  SelectSeq(rest, NotBelow) \o <<x>> \o SelectSeq(rest, Below)

\* Mutant of get_relevant_drugs: a name scoring exactly the floor is kept
get_relevant_drugs_floorInclusive(ocr_text, top_n, drugs) ==
    LET ocr_upper == Upper(ocr_text)
        ocr_chars == Range(ocr_upper)
        all == [i \in DOMAIN drugs |->
                   [drug |-> drugs[i], score |-> DrugScore(drugs[i], ocr_upper, ocr_chars)]]
        Relevant(y) == y.score >= RelevanceFloor
        scored_drugs == SortByScoreDesc(SelectSeq(all, Relevant))
    IN  [i \in 1..Min(top_n, Len(scored_drugs)) |-> scored_drugs[i].drug]

get_relevant_drugs(ocr_text, top_n, drugs) ==
    LET ocr_upper == Upper(ocr_text)
        ocr_chars == Range(ocr_upper)
        all == [i \in DOMAIN drugs |->
                   [drug |-> drugs[i], score |-> DrugScore(drugs[i], ocr_upper, ocr_chars)]]
        Relevant(y) == y.score > RelevanceFloor
        scored_drugs == SortByScoreDesc(SelectSeq(all, Relevant))
    IN  [i \in 1..Min(top_n, Len(scored_drugs)) |-> scored_drugs[i].drug]

(***************************************************************************)
(* Grounding validation inside parse_with_llm                              *)
(***************************************************************************)
\* `if value and str(value).lower() != 'null'`
IsValue(value) == Truthy(value) /\ Lower(Str(value)) # NullStr

AnyWordIn(words, minLen, text) ==
    \E i \in DOMAIN words : Len(words[i]) > minLen /\ In(words[i], text)

AnyIndicatorIn(indicators, text) == \E ind \in indicators : In(ind, text)

\* Mutant of patientNameRule: the whole text is searched
patientNameRule_wholeText(value_str, ocr_text) ==
    AnyWordIn(Split(value_str), 2, Upper(ocr_text))

\* The rules take value_str = str(value).upper() and ocr_upper = ocr_text.upper()
patientNameRule(value_str, ocr_text) ==
    LET first_200_chars == Upper(Prefix(ocr_text, PatientNameWindow))
    IN  AnyWordIn(Split(value_str), 2, first_200_chars)

\* Mutant of drugNameRule: any word of the value may carry the evidence
drugNameRule_anyWord(value_str, ocr_upper) ==
    LET drug_words == Split(value_str)
    IN  \E i \in DOMAIN drug_words :
            /\ Len(drug_words[i]) >= 5
            /\ In(Prefix(drug_words[i], 5), ocr_upper)

drugNameRule(value_str, ocr_upper) ==
    LET drug_words == Split(value_str)
    IN  /\ Len(drug_words) > 0
        /\ Len(drug_words[1]) >= 5
        /\ In(Prefix(drug_words[1], 5), ocr_upper)

\* Mutant of evidenceRule: words of any length count as evidence
evidenceRule_anyLength(value_str, ocr_upper) == AnyWordIn(Split(value_str), 0, ocr_upper)

evidenceRule(value_str, ocr_upper) == AnyWordIn(Split(value_str), 2, ocr_upper)

pharmacyRule(value_str, ocr_upper) ==
    LET lines == SplitLines(ocr_upper)
        pharmacy_on_address_line ==
            \E i \in DOMAIN lines :
                In(value_str, lines[i]) /\ AnyIndicatorIn(AddressLineIndicators, lines[i])
    IN  IF AnyIndicatorIn(AddressGate, ocr_upper) THEN ~pharmacy_on_address_line ELSE TRUE

otherRule(value_str, ocr_upper) ==
    In(value_str, ocr_upper) \/ AnyWordIn(Split(value_str), 3, ocr_upper)

\* Mutant of ValidateField: a value that is not one (None, "", "null" in any
\* case) is passed through instead of being stored as None
ValidateField_passthrough(key, value, ocr_text, ocr_upper) ==
    IF ~IsValue(value) THEN value
    ELSE IF key = "patientName"
         THEN (IF patientNameRule(Upper(Str(value)), ocr_text) THEN value ELSE None)
    ELSE value

\* One iteration of the loop over result.items(): the value stored under key
ValidateField(key, value, ocr_text, ocr_upper) ==
    LET value_str == Upper(Str(value))
    IN  IF ~IsValue(value) THEN None
        ELSE IF key = "patientName"
             THEN (IF patientNameRule(value_str, ocr_text) THEN value ELSE None)
        ELSE IF key = "drugName"
             THEN (IF drugNameRule(value_str, ocr_upper) THEN value ELSE None)
        ELSE IF key \in EvidenceFields
             THEN (IF evidenceRule(value_str, ocr_upper) THEN value ELSE None)
        ELSE IF key = "pharmacy"
             THEN (IF pharmacyRule(value_str, ocr_upper) THEN value ELSE None)
        ELSE (IF otherRule(value_str, ocr_upper) THEN value ELSE None)

\* validated_result after the loop
Validated(result, ocr_text) ==
    LET ocr_upper == Upper(ocr_text)
    IN  [k \in DOMAIN result |-> ValidateField(k, result[k], ocr_text, ocr_upper)]

MinOverlap == 5

ShortlistForMatch == 10

\* The best_match loop: best[1] is best_match (None when there is none),
\* best[2] is best_score, after the first n shortlist names
RECURSIVE BestMatch(_, _, _)
BestMatch(extracted_drug, shortlist, n) ==
    IF n = 0 THEN <<None, 0>>
    ELSE LET prev == BestMatch(extracted_drug, shortlist, n - 1)
             db_upper == Upper(shortlist[n])
             score == Min(Len(db_upper), Len(extracted_drug))
         IN  IF (In(db_upper, extracted_drug) \/ In(extracted_drug, db_upper)) /\ score > prev[2]
             THEN <<shortlist[n], score>>
             ELSE prev

\* "Validate drug name against database": result after the normalisation
NormalizeDrug(result, relevant_drugs) ==
    IF relevant_drugs # <<>> /\ Truthy(Get(result, "drugName"))
    THEN LET best == BestMatch(Upper(result["drugName"]), relevant_drugs,
                               Min(ShortlistForMatch, Len(relevant_drugs)))
         IN  IF best[1] # None /\ best[2] > MinOverlap
             THEN [result EXCEPT !["drugName"] = best[1]]
             ELSE result
    ELSE result

\* `normalized`: the thirteen schema keys and the fixed confidence
Normalized(result) ==
    [k \in SchemaFields \cup {"confidence"} |->
        IF k = "confidence" THEN Conf085 ELSE Get(result, k)]

\* `cleaned`: normalized without its None, "null" and "" values
Cleaned(normalized) ==
    LET keep == {k \in DOMAIN normalized :
                    normalized[k] # None /\ normalized[k] # NullStr /\ normalized[k] # <<>>}
    IN  [k \in keep |-> normalized[k]]

\* Lines 191-302: from the parsed JSON object to the returned dict
ValidateAndClean(result, ocr_text, relevant_drugs) ==
    Cleaned(Normalized(NormalizeDrug(Validated(result, ocr_text), relevant_drugs)))

(***************************************************************************)
(* parse_with_llm                                                          *)
(***************************************************************************)
ErrorDict(msg) == [k \in {"error"} |-> msg]

ShortlistSize == 15

\* The shapes of a model response the two regular expressions tell apart:
\*   "fenced"      a complete ``` block holding a well-formed object
\*   "bare"        a well-formed object and no ``` anywhere
\*   "bare_marked" a well-formed object outside any complete ``` block, with
\*                 a ``` marker elsewhere in the response
\*   "malformed"   a brace-delimited span that json.loads rejects
\*   "no_object"   no brace-delimited span at all
OkShapes == {"fenced", "bare"}

\* An exception on its way out of the try block, as a dict of its own kind
Raise(msg) == [k \in {"raise"} |-> msg]

\* The try block of parse_with_llm: the dict it returns, or the exception
\* that leaves it.  response is what ollama.generate does (raise, or a
\* response of some shape whose object, when there is one, parses to
\* response.parsed), drugs is what load_drug_database returns.
TryBody(ocr_text, response, drugs) ==
    IF response.raises THEN Raise(<<"generate raised">>)
    ELSE IF response.shape = "no_object" THEN ErrorDict(<<"Failed to parse LLM response">>)
    ELSE IF response.shape = "bare_marked" THEN Raise(<<"no such group">>)
    ELSE IF response.shape = "malformed" THEN Raise(<<"JSONDecodeError">>)
    ELSE LET relevant_drugs == get_relevant_drugs(ocr_text, ShortlistSize, drugs)
             validated_result == Validated(response.parsed, ocr_text)
         IN  \* result["drugName"].upper() of a drugName that is not a str
             IF /\ relevant_drugs # <<>>
                /\ Truthy(Get(validated_result, "drugName"))
                /\ IsNumber(validated_result["drugName"])
             THEN Raise(<<"'int' object has no attribute 'upper'">>)
             ELSE ValidateAndClean(response.parsed, ocr_text, relevant_drugs)

\* Mutant of Caught: no except clause, the exception leaves the function
Caught_reraised(r) == r

\* `except Exception as e: return {"error": str(e)}`
Caught(r) == IF "raise" \in DOMAIN r THEN ErrorDict(r["raise"]) ELSE r

\* The dict parse_with_llm returns.  installed is OLLAMA_AVAILABLE.
parse_with_llm(ocr_text, installed, response, drugs) ==
    IF ~installed THEN ErrorDict(<<"Ollama not available">>)
    ELSE Caught(TryBody(ocr_text, response, drugs))

(***************************************************************************)
(* hybrid_parse                                                            *)
(***************************************************************************)
MinFields == 3

\* Mutant of LlmOk: a dict carrying "error" is taken for a result
LlmOk_errorAccepted(llm_result) == DOMAIN llm_result # {}

\* `"error" not in llm_result and llm_result`
LlmOk(llm_result) == "error" \notin DOMAIN llm_result /\ DOMAIN llm_result # {}

\* `sum(1 for v in llm_result.values() if v and v != "null")`
FieldCount(llm_result) ==
    Cardinality({k \in DOMAIN llm_result : Truthy(llm_result[k]) /\ llm_result[k] # NullStr})

\* `if regex_result:` a dict is truthy unless it is empty
RegexTruthy(regex_result) == regex_result.kind = "dict"

\* Mutant of RegexGoodEnough: a strict comparison
RegexGoodEnough_strict(regex_result, confidence_threshold) ==
    regex_result.confidence > confidence_threshold

\* `regex_confidence >= confidence_threshold`, both sides in hundredths
RegexGoodEnough(regex_result, confidence_threshold) ==
    regex_result.confidence >= confidence_threshold

(***************************************************************************)
(* Inputs of the model                                                     *)
(***************************************************************************)
MaxLines == 2

MaxKeys == 3

\* The lines a recognized text is made of
LineVocab == <<
    <<"J","O","H","N"," ","S","M","I","T","H">>,
    <<"P","R","E","D","N","I","S","O","N","E"," ","2","0","M","G">>,
    <<"1","2"," ","M","A","I","N"," ","S","T",","," ","C","V","S">>,
    <<"C","V","S"," ","9"," ","O","A","K"," ","A","V","E">>,
    <<"C","I","L","L","I","N"," ","5","0","0","M","G"," ","A","M","O","X">> >>

\* '\n'.join of the vocabulary lines whose indices are in S, in vocabulary order
RECURSIVE JoinLines(_)
JoinLines(S) ==
    IF S = {} THEN <<>>
    ELSE LET i == CHOOSE x \in S : \A y \in S : x <= y
         IN  IF S = {i} THEN LineVocab[i]
             ELSE LineVocab[i] \o <<"\n">> \o JoinLines(S \ {i})

\* A label whose first line is PatientNameWindow garbage symbols, so that the
\* patient name starts after the window
PaddedText == [i \in 1..PatientNameWindow |-> "#"] \o <<"\n">> \o LineVocab[1]

\* Every text of at most MaxLines vocabulary lines, and the padded label
Texts ==
    {JoinLines(S) : S \in {T \in SUBSET DOMAIN LineVocab : Cardinality(T) <= MaxLines}}
    \cup {PaddedText}

\* The values the model may propose under each key ("notes" is not a schema key)
ValuePool ==
    [patientName |-> {<<"J","O","H","N"," ","S","M","I","T","H">>,
                      <<"M","A","R","Y"," ","J","O","N","E","S">>},
     drugName    |-> {<<"P","R","E","D","N","I","S","O","N","E">>,
                      <<"C","I","L","L","I","N">>},
     strength    |-> {<<"2","0","M","G">>},
     duration    |-> {<<"5"," ","D","A","Y","S">>, <<"2","0","M","G">>},
     pharmacy    |-> {<<"C","V","S">>},
     dosage      |-> {None, <<"N","U","L","L">>, <<>>},
     notes       |-> {<<"C","V","S">>}]

PoolValues == UNION {ValuePool[k] : k \in DOMAIN ValuePool}

\* Every dict of at most MaxKeys keys, each key with a value of its pool
ParsedDicts ==
    UNION {{d \in [K -> PoolValues] : \A k \in K : d[k] \in ValuePool[k]} :
              K \in {T \in SUBSET DOMAIN ValuePool : Cardinality(T) <= MaxKeys}}

NoResponse == [raises |-> FALSE, shape |-> "none", parsed |-> EmptyDict]

\* What ollama.generate may do: raise, answer without a usable object, or
\* answer with an object
Responses ==
    {[raises |-> TRUE, shape |-> "none", parsed |-> EmptyDict]}
    \cup {[raises |-> FALSE, shape |-> sh, parsed |-> EmptyDict] :
             sh \in {"no_object", "malformed", "bare_marked"}}
    \cup {[raises |-> FALSE, shape |-> "bare", parsed |-> d] : d \in ParsedDicts}
    \cup {[raises |-> FALSE, shape |-> "fenced", parsed |-> d] :
             d \in {x \in ParsedDicts : Cardinality(DOMAIN x) <= 1}}

\* The reference source: the names the regex finds in it, in file order, with
\* a repeated name
DbFiles ==
    {[exists |-> TRUE,
      matches |-> << <<"P","r","e","d","n","i","s","o","n","e">>,
                     <<"A","m","o","x","i","c","i","l","l","i","n">>,
                     <<"L","i","s","i","n","o","p","r","i","l">>,
                     <<"A","m","o","x","i","c","i","l","l","i","n">> >>]}

NoRegex == [kind |-> "None", confidence |-> 0, method |-> "none"]

\* regex_result: None, {} or a dict whose confidence is on the 0..100 scale
RegexResults ==
    {NoRegex, [kind |-> "empty", confidence |-> 0, method |-> "none"]}
    \cup {[kind |-> "dict", confidence |-> c, method |-> "Denoised"] : c \in {0, 70}}

\* confidence_threshold=0.7, in hundredths
ConfidenceThreshold == 70

(***************************************************************************)
(* State                                                                   *)
(***************************************************************************)
VARIABLES
    ocr_text,        \* hybrid_parse argument
    regex_result,    \* hybrid_parse argument
    prefer_llm,      \* hybrid_parse argument
    service,         \* "missing" (import failed), "down" or "up" (ollama.list())
    dbFile,          \* the reference source load_drug_database reads
    DRUG_DATABASE,   \* the module-level cache: [loaded, names]
    response,        \* what ollama.generate did in this call
    llm_result,      \* hybrid_parse local; EmptyDict until parse_with_llm returns
    pc,              \* where hybrid_parse is
    result,          \* what hybrid_parse returned: [kind, dict]
    probes,          \* number of ollama.list() calls made
    generate_calls   \* number of parse_with_llm calls made

parseVars == <<ocr_text, regex_result, prefer_llm, service, dbFile, DRUG_DATABASE,
               response, llm_result, pc, result, probes, generate_calls>>

VARIABLES
    future,            \* each submitted future: [state, conf, text]
    work_queue,        \* the executor's queue of work items
    opc,               \* where process_ocr_detailed is
    ac_finished,       \* as_completed: futures found done on entry, not yet yielded
    ac_waiter,         \* as_completed: futures that completed since, in completion order
    rotation_scores,   \* the (name, conf) log
    best_rotation,     \* best_rotation_conf and best_rotation_name
    results,           \* the ensemble's collected (text, conf, method) triples
    best_result,       \* max(results, key=conf), once picked
    done_at_exit       \* the variants that had completed when the ensemble loop broke

ocrVars == <<future, work_queue, opc, ac_finished, ac_waiter, rotation_scores,
             best_rotation, results, best_result, done_at_exit>>

VARIABLES
    LLM_ENABLED,     \* app.py module level: the availability check made at import
    spc,             \* where the server process is: boot, idle, picked, parsing, responded
    http,            \* the response of the request being answered
    requests         \* number of /ocr/detailed requests received

svcVars == <<LLM_ENABLED, spc, http, requests>>

VARIABLES
    top_n,           \* get_relevant_drugs argument
    tpc,             \* where each thread is in get_relevant_drugs
    tdrugs,          \* each thread's `drugs`: what load_drug_database returned to it
    tret,            \* what get_relevant_drugs returned to each thread
    file_reads       \* number of times the reference source was opened and read

idxVars == <<top_n, tpc, tdrugs, tret, file_reads>>

VARIABLES
    medications,     \* the content of medications.json, a list of records
    reply            \* the response of the last medication request

storeVars == <<medications, reply>>

VARIABLES
    executors,       \* number of ThreadPoolExecutor objects the process has built
    pool_queue,      \* the work queue of `executor`, shared by every request
    pool,            \* per handler thread and phase: its futures by state
    hpc              \* where each handler thread is in process_ocr_detailed

poolVars == <<executors, pool_queue, pool, hpc>>

VARIABLES
    posts            \* each concurrent POST /api/medications: where it is and its locals

postVars == <<posts>>

VARIABLES
    active_connections,  \* manager.active_connections
    lock,               \* manager.lock: "free" or the thread that holds it
    sockets,             \* each WebSocket: its handler's position and its state
    broadcasting         \* the manager.broadcast call of the listen thread: its locals

cmVars == <<active_connections, lock, sockets, broadcasting>>

NoResult == [kind |-> "none", dict |-> EmptyDict]

AllFailed == [error |-> <<"All parsing methods failed">>, confidence |-> 0]

InitParse ==
    /\ ocr_text \in Texts
    /\ regex_result \in RegexResults
    /\ prefer_llm \in BOOLEAN
    /\ service \in {"missing", "down", "up"}
    /\ dbFile \in DbFiles
    /\ DRUG_DATABASE = [loaded |-> FALSE, names |-> <<>>]
    /\ response = NoResponse
    /\ llm_result = EmptyDict
    /\ pc = "start"
    /\ result = NoResult
    /\ probes = 0
    /\ generate_calls = 0

\* is_ollama_available(): False without a call when the import failed,
\* otherwise one ollama.list() call
IsOllamaAvailable == service = "up"

ProbeCost == IF service = "missing" THEN 0 ELSE 1

\* load_drug_database(): the cache after the call
load_drug_database ==
    IF DRUG_DATABASE.loaded THEN DRUG_DATABASE
    ELSE [loaded |-> TRUE, names |-> LoadedDrugs(dbFile)]

\* Mutant of FinalFallback: the confidence threshold applied to the last resort
FinalFallback_thresholded ==
    IF RegexTruthy(regex_result) /\ RegexGoodEnough(regex_result, ConfidenceThreshold)
    THEN [kind |-> "regex", dict |-> regex_result]
    ELSE [kind |-> "error", dict |-> AllFailed]

\* The "Final fallback" lines
FinalFallback ==
    IF RegexTruthy(regex_result) THEN [kind |-> "regex", dict |-> regex_result]
    ELSE [kind |-> "error", dict |-> AllFailed]

\* A call parse_with_llm(ocr_text, use_drug_db=True) answered by r
CallParse(r) ==
    /\ response' = r
    /\ DRUG_DATABASE' = load_drug_database
    /\ llm_result' = parse_with_llm(ocr_text, service # "missing", r, load_drug_database.names)
    /\ generate_calls' = generate_calls + 1

\* `if prefer_llm and is_ollama_available():`
Strategy1 ==
    /\ pc = "start"
    /\ probes' = IF prefer_llm THEN probes + ProbeCost ELSE probes
    /\ pc' = IF prefer_llm /\ IsOllamaAvailable THEN "llm_first" ELSE "strategy2"
    /\ UNCHANGED <<ocr_text, regex_result, prefer_llm, service, dbFile, DRUG_DATABASE,
                   response, llm_result, result, generate_calls>>
    /\ UNCHANGED <<ocrVars, svcVars, idxVars, storeVars, poolVars, postVars, cmVars>>

\* Strategy 1: the LLM call and the field-count test
LlmFirst ==
    /\ pc = "llm_first"
    /\ \E r \in Responses : CallParse(r)
    /\ IF LlmOk(llm_result') /\ FieldCount(llm_result') >= MinFields
       THEN result' = [kind |-> "llm", dict |-> llm_result'] /\ pc' = "done"
       ELSE result' = result /\ pc' = "strategy2"
    /\ UNCHANGED <<ocr_text, regex_result, prefer_llm, service, dbFile, probes>>
    /\ UNCHANGED <<ocrVars, svcVars, idxVars, storeVars, poolVars, postVars, cmVars>>

\* Mutant of Strategy2: the fallback call is made under either policy
Strategy2_retriesLlm ==
    /\ pc = "strategy2"
    /\ IF RegexTruthy(regex_result)
       THEN IF RegexGoodEnough(regex_result, ConfidenceThreshold)
            THEN /\ result' = [kind |-> "regex", dict |-> regex_result]
                 /\ pc' = "done"
                 /\ probes' = probes
            ELSE /\ probes' = probes + ProbeCost
                 /\ IF IsOllamaAvailable
                    THEN result' = result /\ pc' = "llm_fallback"
                    ELSE result' = FinalFallback /\ pc' = "done"
       ELSE /\ result' = FinalFallback
            /\ pc' = "done"
            /\ probes' = probes
    /\ UNCHANGED <<ocr_text, regex_result, prefer_llm, service, dbFile, DRUG_DATABASE,
                   response, llm_result, generate_calls>>
    /\ UNCHANGED <<ocrVars, svcVars, idxVars, storeVars, poolVars, postVars, cmVars>>

\* Strategy 2 up to the LLM fallback call, or to the return when none is made
Strategy2 ==
    /\ pc = "strategy2"
    /\ IF RegexTruthy(regex_result)
       THEN IF RegexGoodEnough(regex_result, ConfidenceThreshold)
            THEN /\ result' = [kind |-> "regex", dict |-> regex_result]
                 /\ pc' = "done"
                 /\ probes' = probes
            ELSE /\ probes' = probes + ProbeCost
                 /\ IF IsOllamaAvailable /\ ~prefer_llm
                    THEN result' = result /\ pc' = "llm_fallback"
                    ELSE result' = FinalFallback /\ pc' = "done"
       ELSE /\ result' = FinalFallback
            /\ pc' = "done"
            /\ probes' = probes
    /\ UNCHANGED <<ocr_text, regex_result, prefer_llm, service, dbFile, DRUG_DATABASE,
                   response, llm_result, generate_calls>>
    /\ UNCHANGED <<ocrVars, svcVars, idxVars, storeVars, poolVars, postVars, cmVars>>

\* "Try LLM as fallback for low-confidence regex", then the final fallback
LlmFallback ==
    /\ pc = "llm_fallback"
    /\ \E r \in Responses : CallParse(r)
    /\ result' = IF LlmOk(llm_result') THEN [kind |-> "llm", dict |-> llm_result']
                 ELSE FinalFallback
    /\ pc' = "done"
    /\ UNCHANGED <<ocr_text, regex_result, prefer_llm, service, dbFile, probes>>
    /\ UNCHANGED <<ocrVars, svcVars, idxVars, storeVars, poolVars, postVars, cmVars>>

NextParse == Strategy1 \/ LlmFirst \/ Strategy2 \/ LlmFallback

(***************************************************************************)
(* /ocr/detailed: the shared executor, the orientation search and the      *)
(* preprocessing ensemble of process_ocr_detailed                          *)
(***************************************************************************)
\* ThreadPoolExecutor(max_workers=3)
MaxWorkers == 3

\* `if best_rotation_conf > 90`
RotationEarlyExit == 90

\* `if conf > 92`
EnsembleEarlyExit == 92

\* The four rotation probes, in submission order: "0°", "90° CCW", "180°",
\* "270° (90 CW)"
RotationTasks == <<"rot0", "rot90", "rot180", "rot270">>

\* The three preprocessing variants, in submission order
EnsembleTasks == <<"Denoised", "Otsu", "Adaptive">>

AllTasks == Range(RotationTasks) \cup Range(EnsembleTasks)

\* The average confidences a rotation probe may measure
RotationConfs == {0, 90, 91}

\* The text a variant's recognition reads off the label when it does not raise
LabelText == JoinLines({1, 2})

\* What the recognition inside a task may do: raise, or measure
RotationOutcomes ==
    {[raises |-> TRUE, conf |-> 0, text |-> <<>>]}
    \cup {[raises |-> FALSE, conf |-> c, text |-> <<>>] : c \in RotationConfs}

\* The average confidences a variant's recognition may measure when it does
\* not raise
EnsembleConfs == {92, 93, 99}

EnsembleOutcomes ==
    {[raises |-> TRUE, conf |-> 0, text |-> <<>>]}
    \cup {[raises |-> FALSE, conf |-> c, text |-> LabelText] : c \in EnsembleConfs}

\* Mutant of process_rotation: no try/except around the recognition
process_rotation_uncaught(o) ==
    [conf |-> o.conf, text |-> <<>>, failed |-> o.raises, exc |-> o.raises]

\* process_rotation: (avg_conf, img_cv, name), or (0, img_cv, name) from the
\* except branch; exc says whether an exception leaves the task
process_rotation(o) ==
    IF o.raises THEN [conf |-> 0, text |-> <<>>, failed |-> TRUE, exc |-> FALSE]
    ELSE [conf |-> o.conf, text |-> <<>>, failed |-> FALSE, exc |-> FALSE]

\* Mutant of preprocess_and_ocr: no try/except around the recognition
preprocess_and_ocr_uncaught(o) ==
    [conf |-> o.conf, text |-> o.text, failed |-> o.raises, exc |-> o.raises]

\* preprocess_and_ocr: (text, avg_conf, method_name), or ("", 0, method_name)
\* from the except branch
preprocess_and_ocr(o) ==
    IF o.raises THEN [conf |-> 0, text |-> <<>>, failed |-> TRUE, exc |-> FALSE]
    ELSE [conf |-> o.conf, text |-> o.text, failed |-> FALSE, exc |-> FALSE]

NotSubmitted == [state |-> "NONE", conf |-> 0, text |-> <<>>, failed |-> FALSE, exc |-> FALSE]

NoBest == [text |-> <<>>, conf |-> 0, method |-> "none"]

InitOcr ==
    /\ future = [t \in AllTasks |-> NotSubmitted]
    /\ work_queue = <<>>
    /\ opc = "rotations"
    /\ ac_finished = {}
    /\ ac_waiter = <<>>
    /\ rotation_scores = <<>>
    /\ best_rotation = [conf |-> 0, name |-> "rot0"]
    /\ results = <<>>
    /\ best_result = NoBest
    /\ done_at_exit = {}

Running == {t \in AllTasks : future[t].state = "RUNNING"}

Done(t) == future[t].state \in {"FINISHED", "CANCELLED"}

\* The tasks of the phase process_ocr_detailed is collecting
CollectedPhase ==
    IF opc = "rotation_loop" THEN Range(RotationTasks)
    ELSE IF opc = "ensemble_loop" THEN Range(EnsembleTasks)
    ELSE {}

\* executor.submit of each task of a phase, in order
Submitted(tasks) ==
    /\ future' = [t \in AllTasks |->
                     IF t \in Range(tasks) THEN [NotSubmitted EXCEPT !.state = "PENDING"]
                     ELSE future[t]]
    /\ work_queue' = work_queue \o tasks

\* A worker thread takes the next work item; a cancelled one is dropped
WorkerStart ==
    /\ work_queue # <<>>
    /\ Cardinality(Running) < MaxWorkers
    /\ LET t == Head(work_queue)
       IN  future' = IF future[t].state = "PENDING"
                     THEN [future EXCEPT ![t].state = "RUNNING"]
                     ELSE future
    /\ work_queue' = Tail(work_queue)
    /\ UNCHANGED <<opc, ac_finished, ac_waiter, rotation_scores, best_rotation,
                   results, best_result, done_at_exit>>
    /\ UNCHANGED <<parseVars, svcVars, idxVars, storeVars, poolVars, postVars, cmVars>>

\* The future of t completes with what the task returned or raised (r); a
\* waiting as_completed is told
Completes(t, r) ==
    /\ future[t].state = "RUNNING"
    /\ future' = [future EXCEPT ![t] = [state |-> "FINISHED", conf |-> r.conf, text |-> r.text,
                                        failed |-> r.failed, exc |-> r.exc]]
    /\ ac_waiter' = IF t \in CollectedPhase THEN Append(ac_waiter, t) ELSE ac_waiter
    /\ UNCHANGED <<work_queue, opc, ac_finished, rotation_scores, best_rotation,
                   results, best_result, done_at_exit>>
    /\ UNCHANGED <<parseVars, svcVars, idxVars, storeVars, poolVars, postVars, cmVars>>

\* A rotation task ends
RotationFinish ==
    \E t \in Range(RotationTasks) : \E o \in RotationOutcomes : Completes(t, process_rotation(o))

\* A variant task ends
VariantFinish ==
    \E t \in Range(EnsembleTasks) : \E o \in EnsembleOutcomes : Completes(t, preprocess_and_ocr(o))

\* The four executor.submit calls of the orientation search
SubmitRotations ==
    /\ opc = "rotations"
    /\ Submitted(RotationTasks)
    /\ opc' = "rotation_wait"
    /\ UNCHANGED <<ac_finished, ac_waiter, rotation_scores, best_rotation, results,
                   best_result, done_at_exit>>
    /\ UNCHANGED <<parseVars, svcVars, idxVars, storeVars, poolVars, postVars, cmVars>>

\* as_completed starts: it notes the futures already done and waits for the rest
EnterAsCompleted ==
    /\ opc \in {"rotation_wait", "ensemble_wait"}
    /\ LET tasks == IF opc = "rotation_wait" THEN Range(RotationTasks)
                    ELSE Range(EnsembleTasks)
       IN  ac_finished' = {t \in tasks : Done(t)}
    /\ ac_waiter' = <<>>
    /\ opc' = IF opc = "rotation_wait" THEN "rotation_loop" ELSE "ensemble_loop"
    /\ UNCHANGED <<future, work_queue, rotation_scores, best_rotation, results,
                   best_result, done_at_exit>>
    /\ UNCHANGED <<parseVars, svcVars, idxVars, storeVars, poolVars, postVars, cmVars>>

\* The futures as_completed may yield next: any of those found done on entry,
\* then the others in completion order
Yieldable ==
    IF ac_finished # {} THEN ac_finished
    ELSE IF ac_waiter # <<>> THEN {Head(ac_waiter)}
    ELSE {}

Yielded(t) ==
    /\ ac_finished' = ac_finished \ {t}
    /\ ac_waiter' = IF ac_finished = {} THEN Tail(ac_waiter) ELSE ac_waiter

\* Mutant of BetterRotation: the unrotated default is never replaced
BetterRotation_neverReplaced(best, conf, name) == best

\* Mutant of BetterRotation: `>=`, the last of equal scores wins
BetterRotation_lastWins(best, conf, name) ==
    IF conf >= best.conf THEN [conf |-> conf, name |-> name] ELSE best

\* Mutant of BetterRotation: the name of the best rotation is not updated
BetterRotation_keepsName(best, conf, name) ==
    IF conf > best.conf THEN [conf |-> conf, name |-> best.name] ELSE best

\* `if conf > best_rotation_conf:` and its three assignments
BetterRotation(best, conf, name) ==
    IF conf > best.conf THEN [conf |-> conf, name |-> name] ELSE best

\* One iteration of the rotation loop; future.result() raises what the task
\* raised, and the handler's `except Exception` then ends the request
RotationCollect ==
    /\ opc = "rotation_loop"
    /\ \E t \in Yieldable :
        LET best == BetterRotation(best_rotation, future[t].conf, t)
            scores == Append(rotation_scores, [name |-> t, conf |-> future[t].conf])
        IN  IF future[t].exc
            THEN /\ opc' = "error"
                 /\ ac_finished' = {}
                 /\ ac_waiter' = <<>>
                 /\ UNCHANGED <<rotation_scores, best_rotation>>
            ELSE /\ rotation_scores' = scores
                 /\ best_rotation' = best
                 /\ IF best.conf > RotationEarlyExit \/ Len(scores) = Len(RotationTasks)
                    THEN /\ ac_finished' = {}
                         /\ ac_waiter' = <<>>
                         /\ opc' = "rotation_done"
                    ELSE /\ Yielded(t)
                         /\ opc' = opc
    /\ UNCHANGED <<future, work_queue, results, best_result, done_at_exit>>
    /\ UNCHANGED <<parseVars, svcVars, idxVars, storeVars, poolVars, postVars, cmVars>>

\* From the score printout to the three executor.submit calls of the ensemble
SubmitVariants ==
    /\ opc = "rotation_done"
    /\ Submitted(EnsembleTasks)
    /\ opc' = "ensemble_wait"
    /\ UNCHANGED <<ac_finished, ac_waiter, rotation_scores, best_rotation, results,
                   best_result, done_at_exit>>
    /\ UNCHANGED <<parseVars, svcVars, idxVars, storeVars, poolVars, postVars, cmVars>>

\* Mutant of PickBest: the last collected result instead of the maximum
PickBest_last(rs) == rs[Len(rs)]

\* max(results, key=lambda x: x[1]): the first result of maximal confidence
PickBest(rs) ==
    rs[CHOOSE i \in DOMAIN rs :
           /\ \A j \in DOMAIN rs : rs[j].conf <= rs[i].conf
           /\ \A j \in 1..(i - 1) : rs[j].conf < rs[i].conf]

\* `for f in futures: if not f.done(): f.cancel()`: a pending future is
\* cancelled, a running one is left to finish
Cancelled ==
    [t \in AllTasks |->
        IF t \in Range(EnsembleTasks) /\ future[t].state = "PENDING"
        THEN [future[t] EXCEPT !.state = "CANCELLED"]
        ELSE future[t]]

\* One iteration of the ensemble loop, and the pick when the loop ends;
\* future.result() raises what the task raised
EnsembleCollect ==
    /\ opc = "ensemble_loop"
    /\ \E t \in Yieldable :
        LET rs == Append(results, [text |-> future[t].text, conf |-> future[t].conf,
                                   method |-> t])
        IN  IF future[t].exc
            THEN /\ opc' = "error"
                 /\ ac_finished' = {}
                 /\ ac_waiter' = <<>>
                 /\ UNCHANGED <<future, results, best_result, done_at_exit>>
            ELSE /\ results' = rs
                 /\ IF future[t].conf > EnsembleEarlyExit
                    THEN /\ future' = Cancelled
                         /\ done_at_exit' = {u \in Range(EnsembleTasks) : future[u].state = "FINISHED"}
                         /\ best_result' = PickBest(rs)
                         /\ ac_finished' = {}
                         /\ ac_waiter' = <<>>
                         /\ opc' = "picked"
                    ELSE IF Len(rs) = Len(EnsembleTasks)
                    THEN /\ best_result' = PickBest(rs)
                         /\ Yielded(t)
                         /\ opc' = "picked"
                         /\ UNCHANGED <<future, done_at_exit>>
                    ELSE /\ Yielded(t)
                         /\ UNCHANGED <<future, opc, best_result, done_at_exit>>
    /\ UNCHANGED <<work_queue, rotation_scores, best_rotation>>
    /\ UNCHANGED <<parseVars, svcVars, idxVars, storeVars, poolVars, postVars, cmVars>>

\* The orientation search of one request: lines 372-422
NextOrientation ==
    \/ SubmitRotations
    \/ EnterAsCompleted
    \/ RotationCollect
    \/ WorkerStart
    \/ RotationFinish

\* The ensemble of the same request, the rotation tasks the orientation
\* search left behind still on the executor: lines 424-475
NextEnsemble ==
    \/ SubmitVariants
    \/ EnterAsCompleted
    \/ EnsembleCollect
    \/ WorkerStart
    \/ RotationFinish
    \/ VariantFinish

(***************************************************************************)
(* The server process: the availability check at import, and the part of   *)
(* process_ocr_detailed that follows the pick of the best variant          *)
(***************************************************************************)
MaxRequests == 2

\* No response yet
NoHttp == [status |-> 0, success |-> FALSE, text |-> <<>>, confidence |-> 0,
           has_parsed |-> FALSE, parsed |-> EmptyDict, method |-> "none", error |-> <<>>]

\* The server process does not run
ServiceOff ==
    /\ LLM_ENABLED = FALSE
    /\ spc = "off"
    /\ http = NoHttp
    /\ requests = 0

\* Triples the ensemble picks: every variant failed; a variant read the label
Picks == {[text |-> <<>>, conf |-> 0, method |-> "Denoised"],
          [text |-> LabelText, conf |-> 93, method |-> "Otsu"]}

\* `LLM_ENABLED = is_ollama_available() and check_model_available(...)`: one
\* ollama.list() call in each function, the second only after the first
\* answered
Startup ==
    /\ spc = "boot"
    /\ \E has_model \in BOOLEAN : LLM_ENABLED' = (IsOllamaAvailable /\ has_model)
    /\ probes' = probes + ProbeCost + (IF IsOllamaAvailable THEN 1 ELSE 0)
    /\ spc' = "idle"
    /\ UNCHANGED <<ocr_text, regex_result, prefer_llm, service, dbFile, DRUG_DATABASE,
                   response, llm_result, pc, result, generate_calls>>
    /\ UNCHANGED <<http, requests>>
    /\ UNCHANGED <<ocrVars, idxVars, storeVars, poolVars, postVars, cmVars>>

\* Between two requests the generative service stops or starts
ServiceChange ==
    /\ spc \in {"idle", "responded"}
    /\ service # "missing"
    /\ service' = IF service = "up" THEN "down" ELSE "up"
    /\ UNCHANGED <<ocr_text, regex_result, prefer_llm, dbFile, DRUG_DATABASE, response,
                   llm_result, pc, result, probes, generate_calls>>
    /\ UNCHANGED <<ocrVars, svcVars, idxVars, storeVars, poolVars, postVars, cmVars>>

\* A request whose image was decoded and recognised: lines 329-476, which
\* SpecOrientation and SpecEnsemble follow step by step, taken as one step
\* to the pick
Recognized ==
    /\ spc \in {"idle", "responded"}
    /\ requests < MaxRequests
    /\ requests' = requests + 1
    /\ \E b \in Picks : best_result' = b
    /\ opc' = "picked"
    /\ spc' = "picked"
    /\ http' = NoHttp
    /\ UNCHANGED <<future, work_queue, ac_finished, ac_waiter, rotation_scores,
                   best_rotation, results, done_at_exit>>
    /\ UNCHANGED LLM_ENABLED
    /\ UNCHANGED <<parseVars, idxVars, storeVars, poolVars, postVars, cmVars>>

\* A request without image data (400), or one whose handling raised (500)
Rejected ==
    /\ spc \in {"idle", "responded"}
    /\ requests < MaxRequests
    /\ requests' = requests + 1
    /\ \/ http' = [NoHttp EXCEPT !.status = 400, !.error = <<"No image data provided">>]
       \/ http' = [NoHttp EXCEPT !.status = 500, !.error = <<"str(e)">>]
    /\ spc' = "responded"
    /\ UNCHANGED LLM_ENABLED
    /\ UNCHANGED <<parseVars, ocrVars, idxVars, storeVars, poolVars, postVars, cmVars>>

\* The "Fallback to regex-only result" response
RegexOnly ==
    [status |-> 200, success |-> TRUE, text |-> best_result.text,
     confidence |-> best_result.conf, has_parsed |-> FALSE, parsed |-> EmptyDict,
     method |-> best_result.method, error |-> <<>>]

\* The 'LLM-enhanced' response; 0.85 * 100 is 85
LlmEnhanced(parsed) ==
    [status |-> 200, success |-> TRUE, text |-> best_result.text,
     confidence |-> 85, has_parsed |-> TRUE, parsed |-> parsed,
     method |-> "LLM-enhanced", error |-> <<>>]

\* regex_result is built and, `if LLM_ENABLED`, hybrid_parse is called with
\* confidence_threshold=0.7, prefer_llm=True; otherwise the regex-only answer
StartParse ==
    /\ spc = "picked"
    /\ IF LLM_ENABLED
       THEN /\ ocr_text' = best_result.text
            /\ regex_result' = [kind |-> "dict", confidence |-> best_result.conf,
                                method |-> best_result.method]
            /\ prefer_llm' = TRUE
            /\ pc' = "start"
            /\ response' = NoResponse
            /\ llm_result' = EmptyDict
            /\ result' = NoResult
            /\ generate_calls' = 0
            /\ spc' = "parsing"
            /\ http' = http
       ELSE /\ http' = RegexOnly
            /\ spc' = "responded"
            /\ UNCHANGED <<ocr_text, regex_result, prefer_llm, pc, response, llm_result,
                           result, generate_calls>>
    /\ UNCHANGED <<service, dbFile, DRUG_DATABASE, probes>>
    /\ UNCHANGED <<LLM_ENABLED, requests>>
    /\ UNCHANGED <<ocrVars, idxVars, storeVars, poolVars, postVars, cmVars>>

\* The keys of the dict hybrid_parse returned
ResultKeys(r) ==
    IF r.kind = "llm" THEN DOMAIN r.dict
    ELSE IF r.kind = "regex" THEN {"text", "confidence", "word_count", "method"}
    ELSE {"error", "confidence"}

\* hybrid_parse has returned: `if 'patientName' in llm_result or 'drugName' in
\* llm_result` the LLM-enhanced answer, otherwise the regex-only answer
Respond ==
    /\ spc = "parsing"
    /\ pc = "done"
    /\ http' = IF "patientName" \in ResultKeys(result) \/ "drugName" \in ResultKeys(result)
               THEN LlmEnhanced(result.dict)
               ELSE RegexOnly
    /\ spc' = "responded"
    /\ pc' = "idle"
    /\ response' = NoResponse
    /\ llm_result' = EmptyDict
    /\ result' = NoResult
    /\ UNCHANGED <<ocr_text, regex_result, prefer_llm, service, dbFile, DRUG_DATABASE,
                   probes, generate_calls>>
    /\ UNCHANGED <<LLM_ENABLED, requests>>
    /\ UNCHANGED <<ocrVars, idxVars, storeVars, poolVars, postVars, cmVars>>

NextService ==
    \/ Startup
    \/ ServiceChange
    \/ Recognized
    \/ Rejected
    \/ StartParse
    \/ Strategy1
    \/ LlmFirst
    \/ Strategy2
    \/ Respond

(***************************************************************************)
(* Request threads calling get_relevant_drugs, and through it              *)
(* load_drug_database, at the same time                                    *)
(***************************************************************************)
MaxTopN == 3

\* The threads of the server that are inside get_relevant_drugs
Threads == {"t1", "t2"}

\* A list not yet assigned
NoNames == [loaded |-> FALSE, names |-> <<>>]

\* No thread is inside get_relevant_drugs
IndexIdle ==
    /\ top_n = 0
    /\ tpc = [t \in Threads |-> "idle"]
    /\ tdrugs = [t \in Threads |-> NoNames]
    /\ tret = [t \in Threads |-> NoNames]
    /\ file_reads = 0

\* `drugs = load_drug_database()` up to the test `if DRUG_DATABASE is None:`
LoadCheck(t) ==
    /\ tpc[t] = "call"
    /\ tpc' = [tpc EXCEPT ![t] = IF DRUG_DATABASE.loaded THEN "return" ELSE "read"]
    /\ UNCHANGED <<top_n, tdrugs, tret, file_reads>>
    /\ UNCHANGED <<parseVars, ocrVars, svcVars, storeVars, poolVars, postVars, cmVars>>

\* os.path.exists and, when the file is there, open, read and re.findall
LoadRead(t) ==
    /\ tpc[t] = "read"
    /\ file_reads' = file_reads + (IF dbFile.exists THEN 1 ELSE 0)
    /\ tpc' = [tpc EXCEPT ![t] = "store"]
    /\ UNCHANGED <<top_n, tdrugs, tret>>
    /\ UNCHANGED <<parseVars, ocrVars, svcVars, storeVars, poolVars, postVars, cmVars>>

\* `DRUG_DATABASE = sorted(set(matches))`, or `DRUG_DATABASE = []`
LoadStore(t) ==
    /\ tpc[t] = "store"
    /\ DRUG_DATABASE' = [loaded |-> TRUE, names |-> LoadedDrugs(dbFile)]
    /\ tpc' = [tpc EXCEPT ![t] = "return"]
    /\ UNCHANGED <<ocr_text, regex_result, prefer_llm, service, dbFile, response,
                   llm_result, pc, result, probes, generate_calls>>
    /\ UNCHANGED <<top_n, tdrugs, tret, file_reads>>
    /\ UNCHANGED <<ocrVars, svcVars, storeVars, poolVars, postVars, cmVars>>

\* `return DRUG_DATABASE`
LoadReturn(t) ==
    /\ tpc[t] = "return"
    /\ tdrugs' = [tdrugs EXCEPT ![t] = DRUG_DATABASE]
    /\ tpc' = [tpc EXCEPT ![t] = "rank"]
    /\ UNCHANGED <<top_n, tret, file_reads>>
    /\ UNCHANGED <<parseVars, ocrVars, svcVars, storeVars, poolVars, postVars, cmVars>>

\* The rest of get_relevant_drugs, on the thread's own `drugs`
Rank(t) ==
    /\ tpc[t] = "rank"
    /\ tret' = [tret EXCEPT ![t] = [loaded |-> TRUE,
                                    names |-> get_relevant_drugs(ocr_text, top_n, tdrugs[t].names)]]
    /\ tpc' = [tpc EXCEPT ![t] = "done"]
    /\ UNCHANGED <<top_n, tdrugs, file_reads>>
    /\ UNCHANGED <<parseVars, ocrVars, svcVars, storeVars, poolVars, postVars, cmVars>>

NextIndex ==
    \E t \in Threads :
        \/ LoadCheck(t)
        \/ LoadRead(t)
        \/ LoadStore(t)
        \/ LoadReturn(t)
        \/ Rank(t)

(***************************************************************************)
(* The medication store: lines 96-234                                      *)
(***************************************************************************)
\* No request answered yet
NoReply == [op |-> "none", id |-> "", status |-> 0, action |-> "none",
            medication |-> [id |-> [type |-> "str", value |-> ""], body |-> 0,
                            createdAt |-> FALSE]]

\* medications.json does not exist yet: load_json_data returns []
StoreIdle ==
    /\ medications = <<>>
    /\ reply = NoReply

\* The ids a POST body may carry: JSON strings and a JSON number.  The id in
\* the URL of GET and DELETE is always a string, and "7" == 7 is False
PostedIds == {[type |-> "str", value |-> "a"], [type |-> "str", value |-> "7"],
             [type |-> "int", value |-> "7"]}

UrlIds == {"a", "7"}

\* request.json of a POST with an id; createdAt says whether the client sent
\* that key
PostedData == [id : PostedIds, body : {1, 2}, createdAt : BOOLEAN]

\* Mutant of create_or_update_medication: the record is always appended
create_or_update_medication_appends(data) ==
    /\ medications' = Append(medications, [data EXCEPT !.createdAt = TRUE])
    /\ reply' = [op |-> "post", id |-> "", status |-> 200, action |-> "created",
                 medication |-> [data EXCEPT !.createdAt = TRUE]]
    /\ UNCHANGED <<parseVars, ocrVars, svcVars, idxVars, poolVars, postVars, cmVars>>

\* POST /api/medications with a body that has an id: load, look for the
\* first record of that id, stamp, replace or append, save
create_or_update_medication(data) ==
    /\ LET found == {i \in DOMAIN medications : medications[i].id = data.id}
           existing_index == IF found = {} THEN 0
                             ELSE CHOOSE i \in found : \A j \in found : i <= j
           stamped == IF existing_index = 0 THEN [data EXCEPT !.createdAt = TRUE] ELSE data
       IN  /\ medications' = IF existing_index # 0
                             THEN [medications EXCEPT ![existing_index] = stamped]
                             ELSE Append(medications, stamped)
           /\ reply' = [op |-> "post", id |-> "", status |-> 200,
                        action |-> IF existing_index # 0 THEN "updated" ELSE "created",
                        medication |-> stamped]
    /\ UNCHANGED <<parseVars, ocrVars, svcVars, idxVars, poolVars, postVars, cmVars>>

\* POST /api/medications without a body or without an id: 400, nothing saved
create_or_update_medication_rejected ==
    /\ reply' = [NoReply EXCEPT !.op = "post", !.status = 400]
    /\ UNCHANGED medications
    /\ UNCHANGED <<parseVars, ocrVars, svcVars, idxVars, poolVars, postVars, cmVars>>

\* Mutant of delete_medication: everything is filtered out
delete_medication_all(medication_id) ==
    /\ medications' = IF medications = <<>> THEN medications ELSE <<>>
    /\ reply' = [NoReply EXCEPT !.op = "delete", !.id = medication_id,
                                !.status = IF medications = <<>> THEN 404 ELSE 200]
    /\ UNCHANGED <<parseVars, ocrVars, svcVars, idxVars, poolVars, postVars, cmVars>>

\* DELETE /api/medications/<medication_id>: load, filter, 404 when nothing
\* was filtered out, otherwise save
delete_medication(medication_id) ==
    /\ LET Other(m) == m.id # [type |-> "str", value |-> medication_id]
           filtered == SelectSeq(medications, Other)
       IN  /\ medications' = IF Len(filtered) = Len(medications) THEN medications
                             ELSE filtered
           /\ reply' = [NoReply EXCEPT !.op = "delete", !.id = medication_id,
                           !.status = IF Len(filtered) = Len(medications) THEN 404 ELSE 200]
    /\ UNCHANGED <<parseVars, ocrVars, svcVars, idxVars, poolVars, postVars, cmVars>>

\* GET /api/medications/<medication_id>: the first record of that id, or 404
get_medication(medication_id) ==
    /\ LET found == {i \in DOMAIN medications :
                        medications[i].id = [type |-> "str", value |-> medication_id]}
       IN  reply' = IF found = {}
                    THEN [NoReply EXCEPT !.op = "get", !.id = medication_id, !.status = 404]
                    ELSE [NoReply EXCEPT !.op = "get", !.id = medication_id, !.status = 200,
                             !.medication = medications[CHOOSE i \in found :
                                                           \A j \in found : i <= j]]
    /\ UNCHANGED medications
    /\ UNCHANGED <<parseVars, ocrVars, svcVars, idxVars, poolVars, postVars, cmVars>>

\* The requests to the store, handled one at a time
NextStore ==
    \/ \E data \in PostedData : create_or_update_medication(data)
    \/ create_or_update_medication_rejected
    \/ \E medication_id \in UrlIds : delete_medication(medication_id)
    \/ \E medication_id \in UrlIds : get_medication(medication_id)

(***************************************************************************)
(* The executor shared by the requests: lines 48-49, 391-411, 452-472      *)
(***************************************************************************)
\* The request threads of the server
Handlers == {"h1", "h2"}

\* Number of futures a phase submits
PhaseSize(p) == IF p = "rot" THEN Len(RotationTasks) ELSE Len(EnsembleTasks)

\* No request is in its recognition phases; the module has built `executor`
PoolIdle ==
    /\ executors = 1
    /\ pool_queue = <<>>
    /\ pool = [h \in Handlers |-> [p \in {"rot", "ens"} |->
                 [pending |-> 0, running |-> 0, finished |-> 0, collected |-> 0]]]
    /\ hpc = [h \in Handlers |-> "idle"]

TotalRunning ==
    pool["h1"]["rot"].running + pool["h1"]["ens"].running
    + pool["h2"]["rot"].running + pool["h2"]["ens"].running

\* Mutant of WorkerFree: a thread for every work item
WorkerFree_unbounded == TRUE

\* ThreadPoolExecutor(max_workers=3): a work item is taken only by one of
\* the three worker threads, each running one item at a time
WorkerFree == TotalRunning < MaxWorkers

\* The executor.submit calls of a phase on the module's executor, as
\* SubmitRotations and SubmitVariants; the handler then enters its
\* as_completed loop
PoolSubmit(h) ==
    /\ hpc[h] \in {"rotations", "variants"}
    /\ LET p == IF hpc[h] \in {"rotations", "rotation_loop"} THEN "rot" ELSE "ens"
       IN  /\ pool' = [pool EXCEPT ![h][p].pending = PhaseSize(p)]
           /\ pool_queue' = pool_queue \o [i \in 1..PhaseSize(p) |-> <<h, p>>]
           /\ hpc' = [hpc EXCEPT ![h] = IF p = "rot" THEN "rotation_loop"
                                        ELSE "ensemble_loop"]
    /\ UNCHANGED executors
    /\ UNCHANGED <<parseVars, ocrVars, svcVars, idxVars, storeVars, postVars, cmVars>>

\* A free worker takes the next work item; the item of a cancelled future
\* (none of the phase's futures is pending any more) is dropped
PoolWorkerStart ==
    /\ pool_queue # <<>>
    /\ WorkerFree
    /\ LET h == Head(pool_queue)[1]
           p == Head(pool_queue)[2]
       IN  pool' = IF pool[h][p].pending > 0
                   THEN [pool EXCEPT ![h][p].pending = @ - 1, ![h][p].running = @ + 1]
                   ELSE pool
    /\ pool_queue' = Tail(pool_queue)
    /\ UNCHANGED <<executors, hpc>>
    /\ UNCHANGED <<parseVars, ocrVars, svcVars, idxVars, storeVars, postVars, cmVars>>

\* A running process_rotation or preprocess_and_ocr returns
PoolTaskFinish(h, p) ==
    /\ pool[h][p].running > 0
    /\ pool' = [pool EXCEPT ![h][p].running = @ - 1, ![h][p].finished = @ + 1]
    /\ UNCHANGED <<executors, pool_queue, hpc>>
    /\ UNCHANGED <<parseVars, ocrVars, svcVars, idxVars, storeVars, postVars, cmVars>>

\* Mutant of LoopEnds: the loop ends on the early exit only
LoopEnds_earlyOnly(f, high) == high

\* The as_completed loop ends on `break` or when every future of the phase
\* has been yielded (f: the futures of the phase not yet yielded)
LoopEnds(f, high) == high \/ f.pending + f.running + f.finished = 0

\* One iteration of `for future in as_completed(...)`: a finished future is
\* yielded; the loop ends on the early exit (high) or after the last future,
\* and the ensemble's early exit cancels its pending futures
PoolCollect(h) ==
    /\ hpc[h] \in {"rotation_loop", "ensemble_loop"}
    /\ LET p == IF hpc[h] \in {"rotations", "rotation_loop"} THEN "rot" ELSE "ens"
           f == [pool[h][p] EXCEPT !.finished = @ - 1, !.collected = @ + 1]
       IN  /\ pool[h][p].finished > 0
           /\ \E high \in BOOLEAN :
                /\ pool' = [pool EXCEPT ![h][p] =
                               IF high /\ p = "ens" THEN [f EXCEPT !.pending = 0] ELSE f]
                /\ hpc' = [hpc EXCEPT ![h] =
                              IF LoopEnds(f, high)
                              THEN (IF p = "rot" THEN "variants" ELSE "picked")
                              ELSE hpc[h]]
    /\ UNCHANGED <<executors, pool_queue>>
    /\ UNCHANGED <<parseVars, ocrVars, svcVars, idxVars, storeVars, postVars, cmVars>>

NextPool ==
    \/ \E h \in Handlers : PoolSubmit(h)
    \/ PoolWorkerStart
    \/ \E h \in Handlers : \E p \in {"rot", "ens"} : PoolTaskFinish(h, p)
    \/ \E h \in Handlers : PoolCollect(h)

(***************************************************************************)
(* Concurrent POST /api/medications: app.run serves each request on a      *)
(* thread of its own, and the handler takes no lock                        *)
(***************************************************************************)
Writers == {"w1", "w2", "w3"}

\* The requests post distinct ids
PostedBy(w) ==
    {d \in PostedData :
        d.id = (IF w = "w1" THEN [type |-> "str", value |-> "a"]
                ELSE IF w = "w2" THEN [type |-> "str", value |-> "7"]
                ELSE [type |-> "int", value |-> "7"])}

\* No POST is being served
PostsIdle ==
    posts = [w \in Writers |->
                [pc |-> "idle", data |-> NoReply.medication, medications |-> <<>>]]

\* Lines 168-195: the request is read, medications.json is loaded, and the
\* record is replaced or appended in the handler's own list
PostLoad(w) ==
    /\ posts[w].pc = "idle"
    /\ \E data \in PostedBy(w) :
         LET found == {i \in DOMAIN medications : medications[i].id = data.id}
             existing_index == IF found = {} THEN 0
                               ELSE CHOOSE i \in found : \A j \in found : i <= j
             stamped == IF existing_index = 0 THEN [data EXCEPT !.createdAt = TRUE] ELSE data
         IN  posts' = [posts EXCEPT ![w] =
                          [pc |-> "modified", data |-> stamped,
                           medications |-> IF existing_index # 0
                                           THEN [medications EXCEPT ![existing_index] = stamped]
                                           ELSE Append(medications, stamped)]]
    /\ UNCHANGED <<parseVars, ocrVars, svcVars, idxVars, storeVars, poolVars, cmVars>>

\* save_json_data, `open(filepath, 'w')`: the file is truncated; a load that
\* reads it now fails in json.load and returns the default []
PostOpen(w) ==
    /\ posts[w].pc = "modified"
    /\ medications' = <<>>
    /\ posts' = [posts EXCEPT ![w].pc = "writing"]
    /\ UNCHANGED <<parseVars, ocrVars, svcVars, idxVars, reply, poolVars, cmVars>>

\* save_json_data, json.dump of the handler's list, and the 200 answer
PostSave(w) ==
    /\ posts[w].pc = "writing"
    /\ medications' = posts[w].medications
    /\ posts' = [posts EXCEPT ![w].pc = "answered"]
    /\ UNCHANGED <<parseVars, ocrVars, svcVars, idxVars, reply, poolVars, cmVars>>

NextPosts == \E w \in Writers : PostLoad(w) \/ PostOpen(w) \/ PostSave(w)

(***************************************************************************)
(* ConnectionManager (src/main.py): the /ws/updates handlers run on the    *)
(* server's event loop, manager.broadcast on the listen thread             *)
(***************************************************************************)
WebSockets == {"ws1", "ws2"}

NoBroadcast == [pc |-> "returned", conns |-> {}, todo |-> {}, dead |-> {}, sent |-> {}]

\* `manager = ConnectionManager()`, and no client yet
ConnectionsIdle ==
    /\ active_connections = {}
    /\ lock = "free"
    /\ sockets = [ws \in WebSockets |->
                     [pc |-> "new", application_state |-> "CONNECTING", gone |-> FALSE]]
    /\ broadcasting = NoBroadcast

\* The thread is at a `with self._lock:`
AtLock(t) ==
    IF t = "listen"
    THEN \/ broadcasting.pc = "called"
         \/ (broadcasting.pc = "sending" /\ broadcasting.todo = {} /\ broadcasting.dead # {})
    ELSE \/ sockets[t].pc = "accepted"
         \/ (sockets[t].pc = "open" /\ sockets[t].gone)

\* `with self._lock:` entered
acquire(t) ==
    /\ lock = "free"
    /\ AtLock(t)
    /\ lock' = t
    /\ UNCHANGED <<active_connections, sockets, broadcasting>>
    /\ UNCHANGED <<parseVars, ocrVars, svcVars, idxVars, storeVars, poolVars, postVars>>

\* connect, `await websocket.accept()`
accept(ws) ==
    /\ sockets[ws].pc = "new"
    /\ sockets' = [sockets EXCEPT ![ws].pc = "accepted",
                                  ![ws].application_state = "CONNECTED"]
    /\ UNCHANGED <<active_connections, lock, broadcasting>>
    /\ UNCHANGED <<parseVars, ocrVars, svcVars, idxVars, storeVars, poolVars, postVars>>

\* connect, the add under the lock; the handler then waits in receive_text
connect(ws) ==
    /\ lock = ws
    /\ sockets[ws].pc = "accepted"
    /\ active_connections' = active_connections \cup {ws}
    /\ lock' = "free"
    /\ sockets' = [sockets EXCEPT ![ws].pc = "open"]
    /\ UNCHANGED broadcasting
    /\ UNCHANGED <<parseVars, ocrVars, svcVars, idxVars, storeVars, poolVars, postVars>>

\* The client goes away; whether the server side of the socket already shows
\* it in application_state depends on how the connection ended
client_gone(ws) ==
    /\ sockets[ws].pc \in {"accepted", "open"}
    /\ ~sockets[ws].gone
    /\ \E st \in {"CONNECTED", "DISCONNECTED"} :
           sockets' = [sockets EXCEPT ![ws].gone = TRUE, ![ws].application_state = st]
    /\ UNCHANGED <<active_connections, lock, broadcasting>>
    /\ UNCHANGED <<parseVars, ocrVars, svcVars, idxVars, storeVars, poolVars, postVars>>

\* Mutant of disconnect: remove without the membership test, KeyError when
\* the connection is not in the set
disconnect_unchecked(ws) ==
    /\ lock = ws
    /\ sockets[ws].pc = "open"
    /\ active_connections' = active_connections \ {ws}
    /\ lock' = "free"
    /\ sockets' = [sockets EXCEPT ![ws].pc =
                      IF ws \in active_connections THEN "closed" ELSE "raised"]
    /\ UNCHANGED broadcasting
    /\ UNCHANGED <<parseVars, ocrVars, svcVars, idxVars, storeVars, poolVars, postVars>>

\* receive_text raised in the handler, which calls disconnect: the body
\* under the lock
disconnect(ws) ==
    /\ lock = ws
    /\ sockets[ws].pc = "open"
    /\ active_connections' = IF ws \in active_connections
                             THEN active_connections \ {ws}
                             ELSE active_connections
    /\ lock' = "free"
    /\ sockets' = [sockets EXCEPT ![ws].pc = "closed"]
    /\ UNCHANGED broadcasting
    /\ UNCHANGED <<parseVars, ocrVars, svcVars, idxVars, storeVars, poolVars, postVars>>

\* The listen thread calls manager.broadcast: `dead = []`
broadcast_call ==
    /\ broadcasting.pc = "returned"
    /\ broadcasting' = [NoBroadcast EXCEPT !.pc = "called"]
    /\ UNCHANGED <<active_connections, lock, sockets>>
    /\ UNCHANGED <<parseVars, ocrVars, svcVars, idxVars, storeVars, poolVars, postVars>>

\* `conns = list(self.active_connections)` under the lock
broadcast_snapshot ==
    /\ lock = "listen"
    /\ broadcasting.pc = "called"
    /\ broadcasting' = [broadcasting EXCEPT !.pc = "sending",
                                            !.conns = active_connections,
                                            !.todo = active_connections]
    /\ lock' = "free"
    /\ UNCHANGED <<active_connections, sockets>>
    /\ UNCHANGED <<parseVars, ocrVars, svcVars, idxVars, storeVars, poolVars, postVars>>

\* Mutant of broadcast_send: the loop runs over the live set
broadcast_send_live(ws) ==
    /\ broadcasting.pc = "sending"
    /\ ws \in active_connections \ (broadcasting.sent \cup broadcasting.dead)
    /\ broadcasting' = [broadcasting EXCEPT !.sent = @ \cup {ws},
                                            !.todo = @ \ {ws}]
    /\ UNCHANGED <<active_connections, lock, sockets>>
    /\ UNCHANGED <<parseVars, ocrVars, svcVars, idxVars, storeVars, poolVars, postVars>>

\* One turn of `for ws in conns:`: send_text to a connected socket, which
\* raises when the client is gone; a socket that is not connected, or whose
\* send raised, goes to `dead`
broadcast_send(ws) ==
    /\ broadcasting.pc = "sending"
    /\ ws \in broadcasting.todo
    /\ IF sockets[ws].application_state = "CONNECTED"
       THEN /\ broadcasting' = [broadcasting EXCEPT
                                   !.todo = @ \ {ws},
                                   !.sent = @ \cup {ws},
                                   !.dead = IF sockets[ws].gone THEN @ \cup {ws} ELSE @]
            /\ sockets' = IF sockets[ws].gone
                          THEN [sockets EXCEPT ![ws].application_state = "DISCONNECTED"]
                          ELSE sockets
       ELSE /\ broadcasting' = [broadcasting EXCEPT !.todo = @ \ {ws},
                                                    !.dead = @ \cup {ws}]
            /\ sockets' = sockets
    /\ UNCHANGED <<active_connections, lock>>
    /\ UNCHANGED <<parseVars, ocrVars, svcVars, idxVars, storeVars, poolVars, postVars>>

\* `if dead:` is false, the call returns
broadcast_return ==
    /\ broadcasting.pc = "sending"
    /\ broadcasting.todo = {}
    /\ broadcasting.dead = {}
    /\ broadcasting' = [broadcasting EXCEPT !.pc = "returned"]
    /\ UNCHANGED <<active_connections, lock, sockets>>
    /\ UNCHANGED <<parseVars, ocrVars, svcVars, idxVars, storeVars, poolVars, postVars>>

\* Mutant of broadcast_cleanup: the dead connections stay in the set
broadcast_cleanup_keepsDead ==
    /\ lock = "listen"
    /\ broadcasting.pc = "sending"
    /\ broadcasting' = [broadcasting EXCEPT !.pc = "returned"]
    /\ lock' = "free"
    /\ UNCHANGED <<active_connections, sockets>>
    /\ UNCHANGED <<parseVars, ocrVars, svcVars, idxVars, storeVars, poolVars, postVars>>

\* `if dead:` is true: under the lock, each dead connection still in the set
\* is removed, and the call returns
broadcast_cleanup ==
    /\ lock = "listen"
    /\ broadcasting.pc = "sending"
    /\ active_connections' = active_connections \ broadcasting.dead
    /\ broadcasting' = [broadcasting EXCEPT !.pc = "returned"]
    /\ lock' = "free"
    /\ UNCHANGED sockets
    /\ UNCHANGED <<parseVars, ocrVars, svcVars, idxVars, storeVars, poolVars, postVars>>

NextConnections ==
    \/ \E t \in WebSockets \cup {"listen"} : acquire(t)
    \/ \E ws \in WebSockets : accept(ws) \/ connect(ws) \/ client_gone(ws) \/ disconnect(ws)
    \/ broadcast_call
    \/ broadcast_snapshot
    \/ \E ws \in WebSockets : broadcast_send(ws)
    \/ broadcast_return
    \/ broadcast_cleanup

(***************************************************************************)
(* parse_with_llm called on its own                                        *)
(***************************************************************************)
\* What ollama.generate can do in each state of the service: it is not
\* reached when the package is missing, and raises when the server is down
\* A label with a prescription number above the drug line
RxText == <<"R","X"," ","1","2","3","4","5","6","7","\n">> \o LineVocab[2]

DirectTexts == Texts \cup {RxText}

\* Further answers of the model: a drug name whose first word is short, one
\* in mixed case cut after five letters, one with a letter too many, and a
\* number where a name belongs
DirectDrugNames ==
    {<<"a","m","o","x"," ","C","I","L","L","I","N">>,
     <<"P","r","e","d","n">>,
     <<"C","I","L","L","I","N","X">>,
     Num(<<"1","2","3","4","5","6","7">>)}

\* A reference source with more names than the best_match loop looks at
LongDbFile ==
    [exists |-> TRUE,
     matches |-> << <<"C","i","l","l","i","n">>,
                    <<"C","i","l","l","i","n","x">>,
                    <<"A","m","o","x","i","c","a","m">>,
                    <<"A","m","o","x","i","c","a","n">>,
                    <<"A","m","o","x","i","g","a","l">>,
                    <<"A","m","o","x","i","l","a","n">>,
                    <<"A","m","o","x","i","l","i","n">>,
                    <<"A","m","o","x","i","m","a","l">>,
                    <<"A","m","o","x","i","n","a","l">>,
                    <<"A","m","o","x","i","n","i","l">>,
                    <<"A","m","o","x","i","l","o","x">> >>]

\* A patient name in mixed case with a two-letter first name, and one made of
\* two-letter pieces of the name on the label
DirectPatientNames ==
    {<<"J","o"," ","S","m","i","t","h">>, <<"J","O"," ","S","M">>}

DirectDicts ==
    ParsedDicts
    \cup {[k \in {"patientName"} |-> v] : v \in DirectPatientNames}
    \cup {[k \in {"drugName"} |-> v] : v \in DirectDrugNames}
    \cup {[k \in {"drugName", "strength"} |->
              IF k = "drugName" THEN v ELSE <<"2","0","M","G">>] : v \in DirectDrugNames}

ResponsesWhen(svc) ==
    IF svc = "missing" THEN {NoResponse}
    ELSE IF svc = "down" THEN {r \in Responses : r.raises}
    ELSE Responses \cup {[raises |-> FALSE, shape |-> "bare", parsed |-> d] : d \in DirectDicts}

\* One call parse_with_llm(ocr_text, use_drug_db=True) and its return
DirectParse ==
    /\ pc = "direct"
    /\ \E r \in ResponsesWhen(service) : CallParse(r)
    /\ result' = [kind |-> "llm", dict |-> llm_result']
    /\ pc' = "returned"
    /\ UNCHANGED <<ocr_text, regex_result, prefer_llm, service, dbFile, probes>>
    /\ UNCHANGED <<ocrVars, svcVars, idxVars, storeVars, poolVars, postVars, cmVars>>

(***************************************************************************)
(* Specifications                                                          *)
(***************************************************************************)
vars == <<parseVars, ocrVars, svcVars, idxVars, storeVars, poolVars, postVars, cmVars>>

\* hybrid_parse called on its own
Init == InitParse /\ InitOcr /\ ServiceOff /\ IndexIdle /\ StoreIdle /\ PoolIdle /\ PostsIdle /\ ConnectionsIdle

Next == NextParse

Spec == Init /\ [][Next]_vars

\* hybrid_parse not called: the state of the parser while the request is
\* still recognising the image
ParseIdle ==
    /\ ocr_text = <<>>
    /\ regex_result = NoRegex
    /\ prefer_llm = TRUE
    /\ service = "down"
    /\ dbFile \in DbFiles
    /\ DRUG_DATABASE = [loaded |-> FALSE, names |-> <<>>]
    /\ response = NoResponse
    /\ llm_result = EmptyDict
    /\ pc = "idle"
    /\ result = NoResult
    /\ probes = 0
    /\ generate_calls = 0

\* One /ocr/detailed request from its start to the end of the rotation loop
InitOrientation == ParseIdle /\ InitOcr /\ ServiceOff /\ IndexIdle /\ StoreIdle /\ PoolIdle /\ PostsIdle /\ ConnectionsIdle

SpecOrientation == InitOrientation /\ [][NextOrientation]_vars

Finished(c) == [NotSubmitted EXCEPT !.state = "FINISHED", !.conf = c]

\* Two states in which the rotation loop ends (SpecOrientation reaches both):
\* all four probes collected in submission order, none above the early exit;
\* and an early exit on the first probe, two probes running, one queued
AfterRotations ==
    {[future |-> [t \in AllTasks |->
                     IF t = "rot90" THEN Finished(90)
                     ELSE IF t \in Range(RotationTasks) THEN Finished(0)
                     ELSE NotSubmitted],
      work_queue |-> <<>>,
      rotation_scores |-> <<[name |-> "rot0", conf |-> 0], [name |-> "rot90", conf |-> 90],
                            [name |-> "rot180", conf |-> 0], [name |-> "rot270", conf |-> 0]>>,
      best_rotation |-> [conf |-> 90, name |-> "rot90"]],
     [future |-> [t \in AllTasks |->
                     IF t = "rot0" THEN Finished(91)
                     ELSE IF t \in {"rot90", "rot180"} THEN [NotSubmitted EXCEPT !.state = "RUNNING"]
                     ELSE IF t = "rot270" THEN [NotSubmitted EXCEPT !.state = "PENDING"]
                     ELSE NotSubmitted],
      work_queue |-> <<"rot270">>,
      rotation_scores |-> <<[name |-> "rot0", conf |-> 91]>>,
      best_rotation |-> [conf |-> 91, name |-> "rot0"]]}

AtRotationEnd(s) ==
    /\ opc = "rotation_done"
    /\ future = s.future
    /\ work_queue = s.work_queue
    /\ rotation_scores = s.rotation_scores
    /\ best_rotation = s.best_rotation
    /\ ac_finished = {}
    /\ ac_waiter = <<>>
    /\ results = <<>>
    /\ best_result = NoBest
    /\ done_at_exit = {}

\* The same request from the end of the rotation loop to the pick of the
\* best variant
InitEnsemble ==
    /\ ParseIdle
    /\ \E s \in AfterRotations : AtRotationEnd(s)
    /\ ServiceOff
    /\ IndexIdle
    /\ StoreIdle /\ PostsIdle /\ ConnectionsIdle
    /\ PoolIdle

SpecEnsemble == InitEnsemble /\ [][NextEnsemble]_vars

\* The server process from its start: the availability check, then requests
\* one after the other, each from its pick to its response
InitService ==
    /\ ocr_text = <<>>
    /\ regex_result = NoRegex
    /\ prefer_llm = TRUE
    /\ service \in {"missing", "down", "up"}
    /\ dbFile \in DbFiles
    /\ DRUG_DATABASE = [loaded |-> FALSE, names |-> <<>>]
    /\ response = NoResponse
    /\ llm_result = EmptyDict
    /\ pc = "idle"
    /\ result = NoResult
    /\ probes = 0
    /\ generate_calls = 0
    /\ InitOcr
    /\ LLM_ENABLED = FALSE
    /\ spc = "boot"
    /\ http = NoHttp
    /\ requests = 0
    /\ IndexIdle
    /\ StoreIdle /\ PostsIdle /\ ConnectionsIdle
    /\ PoolIdle

SpecService == InitService /\ [][NextService]_vars

\* parse_with_llm called directly, in every state of the generative service
InitDirect ==
    /\ ocr_text \in DirectTexts
    /\ regex_result = NoRegex
    /\ prefer_llm = TRUE
    /\ service \in {"missing", "down", "up"}
    /\ dbFile \in DbFiles \cup {LongDbFile}
    /\ DRUG_DATABASE = [loaded |-> FALSE, names |-> <<>>]
    /\ response = NoResponse
    /\ llm_result = EmptyDict
    /\ pc = "direct"
    /\ result = NoResult
    /\ probes = 0
    /\ generate_calls = 0
    /\ InitOcr
    /\ ServiceOff
    /\ IndexIdle
    /\ StoreIdle /\ PostsIdle /\ ConnectionsIdle
    /\ PoolIdle

SpecDirect == InitDirect /\ [][DirectParse]_vars

\* The server with no medications.json
InitStore == ParseIdle /\ InitOcr /\ ServiceOff /\ IndexIdle /\ StoreIdle /\ PoolIdle /\ PostsIdle /\ ConnectionsIdle

SpecStore == InitStore /\ [][NextStore]_vars

\* Three POST /api/medications requests served at the same time
InitPosts == InitStore

SpecPosts == InitPosts /\ [][NextPosts]_vars

\* The /ws/updates clients and the listen thread
InitConnections == InitStore

SpecConnections == InitConnections /\ [][NextConnections]_vars

\* Both handler threads have a decoded image and are about to submit the
\* rotation probes
InitPool ==
    /\ ParseIdle
    /\ InitOcr
    /\ ServiceOff
    /\ IndexIdle
    /\ StoreIdle /\ PostsIdle /\ ConnectionsIdle
    /\ executors = 1
    /\ pool_queue = <<>>
    /\ pool = [h \in Handlers |-> [p \in {"rot", "ens"} |->
                 [pending |-> 0, running |-> 0, finished |-> 0, collected |-> 0]]]
    /\ hpc = [h \in Handlers |-> "rotations"]

SpecPool == InitPool /\ [][NextPool]_vars

\* Every started task returns, the worker threads and the handler threads
\* keep being scheduled
SpecPoolFair ==
    /\ SpecPool
    /\ WF_vars(PoolWorkerStart)
    /\ \A h \in Handlers :
          /\ WF_vars(PoolSubmit(h))
          /\ WF_vars(PoolCollect(h))
          /\ \A p \in {"rot", "ens"} : WF_vars(PoolTaskFinish(h, p))

\* Two threads enter get_relevant_drugs with the same text and top_n before
\* the reference source was ever loaded
InitIndex ==
    /\ ocr_text \in Texts
    /\ regex_result = NoRegex
    /\ prefer_llm = TRUE
    /\ service = "down"
    /\ dbFile \in DbFiles
    /\ DRUG_DATABASE = [loaded |-> FALSE, names |-> <<>>]
    /\ response = NoResponse
    /\ llm_result = EmptyDict
    /\ pc = "idle"
    /\ result = NoResult
    /\ probes = 0
    /\ generate_calls = 0
    /\ InitOcr
    /\ ServiceOff
    /\ top_n \in 0..MaxTopN
    /\ tpc = [t \in Threads |-> "call"]
    /\ tdrugs = [t \in Threads |-> NoNames]
    /\ tret = [t \in Threads |-> NoNames]
    /\ file_reads = 0
    /\ StoreIdle /\ PostsIdle /\ ConnectionsIdle
    /\ PoolIdle

SpecIndex == InitIndex /\ [][NextIndex]_vars

\* SpecOrientation reaches every state SpecEnsemble starts in
ReachesFullSearch == AtRotationEnd(CHOOSE s \in AfterRotations : s.work_queue = <<>>)

ReachesEarlyExit == AtRotationEnd(CHOOSE s \in AfterRotations : s.work_queue # <<>>)

(***************************************************************************)
(* Properties of parse_with_llm and hybrid_parse                           *)
(***************************************************************************)
\* parse_with_llm has returned a field map (not an error) in this call
LlmReturnedFields == generate_calls > 0 /\ LlmOk(llm_result)

\* The shortlist the call computed
Shortlist == get_relevant_drugs(ocr_text, ShortlistSize, DRUG_DATABASE.names)

\* v occurs in text in whole, or one of its tokens of more than two
\* characters does (case-insensitively)
GroundedIn(v, text) ==
    LET value_str == Upper(Str(v))
        ocr_upper == Upper(text)
    IN  In(value_str, ocr_upper) \/ AnyWordIn(Split(value_str), 2, ocr_upper)

\* The schema fields of a returned dict
FieldsOf(d) == DOMAIN d \cap SchemaFields

\* C1 as claimed: every field value parse_with_llm returns appears in the
\* recognized text, in whole or by one of its significant tokens.
C1_GroundingInvariant ==
    LlmReturnedFields => \A k \in FieldsOf(llm_result) : GroundedIn(llm_result[k], ocr_text)

\* Under generative-first with the service up, strategy 1 has run
GenerativeFirstTried == prefer_llm /\ generate_calls > 0

GenerativeAccepted == result.kind = "llm"

\* The number of non-null schema fields of the validated result
SchemaFieldCount(d) == IF "error" \in DOMAIN d THEN 0 ELSE Cardinality(FieldsOf(d))

\* C2 as claimed: under generative-first with the generative path available,
\* the validated result is accepted if and only if it has at least three
\* non-null schema fields.
C2_AcceptIffThreeFields ==
    GenerativeFirstTried => (GenerativeAccepted <=> SchemaFieldCount(llm_result) >= MinFields)

RotationsFinished == \A t \in Range(RotationTasks) : future[t].state = "FINISHED"

\* The probes that measured more than the early-exit confidence
HighRotations == {t \in Range(RotationTasks) : future[t].conf > RotationEarlyExit}

EarlyExited == opc = "picked" /\ results[Len(results)].conf > EnsembleEarlyExit

Collected == {results[i].method : i \in DOMAIN results}

\* C4 as claimed: the selected confidence is at least that of every variant
\* that had completed when the early exit was triggered.
C4_SelectedAtLeastCompletedBeforeExit ==
    EarlyExited => \A t \in done_at_exit : future[t].conf <= best_result.conf

\* C4 as amended: the selected confidence is at least that of every result
\* the loop collected, so a completed variant that exceeds it was never
\* collected.
C4_SelectedAtLeastCollected ==
    opc = "picked" =>
        /\ \A i \in DOMAIN results : results[i].conf <= best_result.conf
        /\ \E i \in DOMAIN results : results[i] = best_result
        /\ \A t \in Range(EnsembleTasks) :
              (future[t].state = "FINISHED" /\ future[t].conf > best_result.conf)
              => t \notin Collected

\* C4's case: an early exit after a lower result was collected, while a
\* variant completed before the exit holds a higher confidence than the pick
C4_Witness ==
    /\ EarlyExited
    /\ Len(results) = 2
    /\ results[1].conf < best_result.conf
    /\ \E t \in done_at_exit \ Collected : future[t].conf > best_result.conf

\* C5 as claimed: validating a returned map again, with the same text and
\* shortlist, returns the same map.
C5_Idempotent ==
    LlmReturnedFields => ValidateAndClean(llm_result, ocr_text, Shortlist) = llm_result

\* k is a key with a value in the parsed model output
HadValue(k) == k \in DOMAIN response.parsed /\ IsValue(response.parsed[k])

GenerativeUsable ==
    /\ service = "up"
    /\ generate_calls > 0 =>
          /\ LlmOk(llm_result)
          /\ prefer_llm => FieldCount(llm_result) >= MinFields

\* C7 as claimed: hybrid_parse returns the explicit error exactly when
\* neither the generative path nor the deterministic fallback yields a
\* usable result, under either policy.
C7_ErrorIffNothingUsable ==
    pc = "done" =>
        (result.kind = "error" <=> (~RegexTruthy(regex_result) /\ ~GenerativeUsable))

\* C8: under deterministic-first, when the deterministic result's confidence
\* meets the threshold the generative extractor is never invoked and that
\* result is what hybrid_parse returns, whatever the service state.
C8_DeterministicFirstSkipsLlm ==
    (~prefer_llm /\ RegexTruthy(regex_result) /\ regex_result.confidence >= ConfidenceThreshold)
    =>  /\ generate_calls = 0
        /\ pc \notin {"llm_first", "llm_fallback"}
        /\ pc = "done" => (result.kind = "regex" /\ result.dict = regex_result)

C8_Witness ==
    /\ pc = "done"
    /\ ~prefer_llm
    /\ service = "up"
    /\ regex_result.kind = "dict"
    /\ regex_result.confidence >= ConfidenceThreshold
    /\ result.kind = "regex"

\* Under generative-first the generative attempt was judged insufficient:
\* the service is not available, or the extractor returned an error or too
\* few fields
GenerativeInsufficient ==
    \/ service # "up"
    \/ generate_calls > 0 /\ ~(LlmOk(llm_result) /\ FieldCount(llm_result) >= MinFields)

\* C9: under generative-first, once the generative attempt is insufficient a
\* supplied fallback result is returned unchanged whatever its confidence.
C9_FallbackRegardlessOfConfidence ==
    (prefer_llm /\ pc = "done" /\ RegexTruthy(regex_result) /\ GenerativeInsufficient)
    => (result.kind = "regex" /\ result.dict = regex_result)

C9_Witness ==
    /\ prefer_llm
    /\ pc = "done"
    /\ generate_calls > 0
    /\ regex_result.kind = "dict"
    /\ regex_result.confidence = 0
    /\ result.kind = "regex"

\* The address markers C10 names
ClaimedAddressMarkers ==
    {<<"D","R">>, <<"D","R","I","V","E">>, <<"S","T","R","E","E","T">>, <<"S","T">>,
     <<"A","V","E">>, <<"R","O","A","D">>}

\* The proposed pharmacy value occurs on a line of the text that also holds
\* an address marker
PharmacyOnMarkedLine ==
    /\ HadValue("pharmacy")
    /\ LET lines == SplitLines(Upper(ocr_text))
           value_str == Upper(Str(response.parsed["pharmacy"]))
       IN  \E i \in DOMAIN lines :
               In(value_str, lines[i]) /\ AnyIndicatorIn(ClaimedAddressMarkers, lines[i])

\* C10 as claimed: a pharmacy value that shares a text line with an address
\* marker is nulled.
C10_PharmacyNulledOnAddressLine ==
    (LlmReturnedFields /\ PharmacyOnMarkedLine) => "pharmacy" \notin DOMAIN llm_result

\* The words that state a duration on a label
DurationWords == {<<"D","A","Y">>, <<"W","E","E","K">>, <<"M","O","N","T","H">>}

NoDurationWording(text) == ~AnyIndicatorIn(DurationWords, Upper(text))

ProposedDuration == HadValue("duration")

\* C11 as claimed: for a text without duration wording the returned map has
\* no duration, whatever duration the model proposed.
C11_NoDurationWithoutWording ==
    (LlmReturnedFields /\ NoDurationWording(ocr_text) /\ ProposedDuration)
    => "duration" \notin DOMAIN llm_result

\* No word of more than two characters of the proposed duration occurs in
\* the text, in any case
DurationUnsupported ==
    LET words == Split(Upper(response.parsed["duration"]))
    IN  \A i \in DOMAIN words : Len(words[i]) > 2 => ~In(words[i], Upper(ocr_text))

\* C11 as amended: the returned map has no duration when no word of more
\* than two characters of the proposed duration occurs in the text.
C11_NoDurationWithoutEvidence ==
    (LlmReturnedFields /\ ProposedDuration /\ DurationUnsupported)
    => "duration" \notin DOMAIN llm_result

\* C11's case: "5 DAYS" proposed for a text that holds the digit 5 but no
\* duration wording, and dropped
C11_Witness ==
    /\ LlmReturnedFields
    /\ ProposedDuration
    /\ response.parsed["duration"] = <<"5"," ","D","A","Y","S">>
    /\ In(<<"5">>, ocr_text)
    /\ NoDurationWording(ocr_text)
    /\ "duration" \notin DOMAIN llm_result

FailedTasks(tasks) == {t \in Range(tasks) : future[t].state = "FINISHED" /\ future[t].failed}

C13_EnsembleSelectionTotal ==
    /\ opc # "error"
    /\ \A t \in FailedTasks(EnsembleTasks) :
          future[t].conf = 0 /\ future[t].text = <<>> /\ ~future[t].exc
    /\ opc = "picked" =>
          /\ \E i \in DOMAIN results : results[i] = best_result
          /\ best_result.method \in Range(EnsembleTasks)
          /\ FailedTasks(EnsembleTasks) = Range(EnsembleTasks) =>
                (best_result.text = <<>> /\ best_result.conf = 0)

\* C13's case: the three variants failed and one of them is selected
C13_Witness ==
    /\ opc = "picked"
    /\ FailedTasks(EnsembleTasks) = Range(EnsembleTasks)
    /\ Len(results) = Len(EnsembleTasks)
    /\ results[1].method # EnsembleTasks[1]

\* C14: after startup no request issues an availability probe of the
\* generative service: the number of probes issued changes only while the
\* process starts.
C14_NoProbeAfterStartup == [][spc # "boot" => probes' = probes]_vars

\* C15: over any interleaving of concurrent calls the reference source is read
\* at most once, and every call that has returned holds the deduplicated,
\* sorted list.
C15_LoadedOnce ==
    /\ file_reads <= 1
    /\ \A t \in Threads :
          tpc[t] \in {"rank", "done"} => tdrugs[t].names = LoadedDrugs(dbFile)

\* C16: every answer of /ocr/detailed is a success carrying a populated field
\* map or a failure carrying a reason; when no variant recognized anything
\* and no fields were produced the answer is not a success.
C16_SuccessCarriesFields ==
    spc = "responded" =>
        IF http.success
        THEN http.has_parsed /\ FieldsOf(http.parsed) # {}
        ELSE http.error # <<>>

\* What a field map may carry
FieldMapKeys == SchemaFields \cup {"confidence"}

\* C17: parse_with_llm returns a field map or a map carrying "error" and no
\* exception leaves it; a missing service, a raising call, a response with no
\* object and a response with malformed JSON each give the "error" map.
C17_NeverRaises ==
    pc = "returned" =>
        /\ "raise" \notin DOMAIN llm_result
        /\ "error" \in DOMAIN llm_result \/ DOMAIN llm_result \subseteq FieldMapKeys
        /\ (\/ service = "missing"
            \/ response.raises
            \/ response.shape \in {"no_object", "malformed"})
              => DOMAIN llm_result = {"error"}

\* C17's case: the response held malformed JSON, json.loads raised inside
\* the call, and the call returned the "error" map
C17_Witness ==
    /\ pc = "returned"
    /\ service = "up"
    /\ response.shape = "malformed"
    /\ DOMAIN llm_result = {"error"}

\* C18: a response holding a well-formed object, fenced, bare, or bare with
\* fence markers elsewhere, is parsed into a field map, never an error.
C18_ObjectAlwaysParsed ==
    (/\ pc = "returned"
     /\ service = "up"
     /\ ~response.raises
     /\ response.shape \in {"fenced", "bare", "bare_marked"})
        => "error" \notin DOMAIN llm_result

\* The score and the substring test of get_relevant_drugs on the text of the
\* state
ScoreOf(drug) == DrugScore(drug, Upper(ocr_text), Range(Upper(ocr_text)))

IsSubstringName(drug) == In(Upper(drug), Upper(ocr_text))

PassesFloor(drug) == ScoreOf(drug) > RelevanceFloor

\* Position of a name in a list of distinct names, 0 when it is not there
PositionIn(drug, names) ==
    IF \E i \in DOMAIN names : names[i] = drug
    THEN CHOOSE i \in DOMAIN names : names[i] = drug
    ELSE 0

\* a is ranked before b in the ranking of which names is a prefix
RankedBefore(a, b, names) ==
    PositionIn(b, names) # 0 =>
        (PositionIn(a, names) # 0 /\ PositionIn(a, names) < PositionIn(b, names))

\* The pairs C19 is about, among the names a thread loaded
SubstringPairs(t) ==
    {p \in Range(tdrugs[t].names) \X Range(tdrugs[t].names) :
        /\ Len(p[1]) = Len(p[2])
        /\ PassesFloor(p[1]) /\ PassesFloor(p[2])
        /\ IsSubstringName(p[1]) /\ ~IsSubstringName(p[2])}

\* C19: of two reference names of the same length that pass the floor, the
\* one that is a substring of the text is ranked before the one that is not.
C19_SubstringRankedFirst ==
    \A t \in Threads :
        tpc[t] = "done" =>
            \A p \in SubstringPairs(t) : RankedBefore(p[1], p[2], tret[t].names)

\* C19's case: such a pair exists and both names were returned
C19_Witness ==
    \E t \in Threads :
        /\ tpc[t] = "done"
        /\ \E p \in SubstringPairs(t) :
              /\ PositionIn(p[1], tret[t].names) # 0
              /\ PositionIn(p[2], tret[t].names) # 0

\* C20: at most top_n names are returned, each scoring above the floor, in
\* non-increasing score order with equal scores in reference order, and no
\* name left out scores higher than a returned one.
C20_TopNByScore ==
    \A t \in Threads :
        tpc[t] = "done" =>
            LET names == tret[t].names
                drugs == tdrugs[t].names
            IN  /\ Len(names) <= top_n
                /\ \A i \in DOMAIN names :
                      /\ PositionIn(names[i], drugs) # 0
                      /\ ScoreOf(names[i]) > RelevanceFloor
                /\ \A i, j \in DOMAIN names :
                      i < j =>
                         /\ ScoreOf(names[i]) >= ScoreOf(names[j])
                         /\ ScoreOf(names[i]) = ScoreOf(names[j]) =>
                               PositionIn(names[i], drugs) < PositionIn(names[j], drugs)
                /\ \A d \in Range(drugs) \ Range(names) :
                      \A i \in DOMAIN names : ScoreOf(d) <= ScoreOf(names[i])

\* C20's case: a name passing the floor was cut off by top_n, and two returned
\* names have equal scores
C20_Witness ==
    \E t \in Threads :
        /\ tpc[t] = "done"
        /\ \E d \in Range(tdrugs[t].names) \ Range(tret[t].names) : PassesFloor(d)
        /\ \E i, j \in DOMAIN tret[t].names :
              i < j /\ ScoreOf(tret[t].names[i]) = ScoreOf(tret[t].names[j])

\* C21: at every moment, with both handler threads in either phase, at most
\* MaxWorkers recognition tasks are running, and the process has the one
\* executor the module built.
C21_PoolBounded ==
    /\ TotalRunning <= MaxWorkers
    /\ executors = 1

\* C21's case: the three workers are busy with tasks of both requests and
\* of both phases while further work items wait in the queue
C21_Witness ==
    /\ TotalRunning = MaxWorkers
    /\ pool["h1"]["rot"].running > 0
    /\ pool["h2"]["ens"].running > 0
    /\ pool_queue # <<>>

\* C28: with every started task returning, each request gets through its
\* orientation phase and its ensemble phase to the pick.
C28_EveryRequestPicks == <>(\A h \in Handlers : hpc[h] = "picked")

\* C28's case: both requests have picked, one of them after an early exit
\* that left a task of its own running and a work item in the queue
C28_Witness ==
    /\ \A h \in Handlers : hpc[h] = "picked"
    /\ pool["h1"]["rot"].running > 0
    /\ pool_queue # <<>>

\* The confidence a returned dict carries, in hundredths: 0.85 is 85; a
\* regex_result is returned as it came, so its confidence c stays c (100 * c
\* hundredths); 0 - 1 stands for a dict without the key
ResultConfidence(r) ==
    IF r.kind = "regex" THEN 100 * r.dict.confidence
    ELSE IF r.kind = "error" THEN 100 * r.dict.confidence
    ELSE IF "confidence" \in DOMAIN r.dict /\ r.dict["confidence"] = Conf085 THEN 85
    ELSE 0 - 1

\* C22: whichever branch returned, the result of hybrid_parse carries a
\* confidence between 0.0 and 1.0.
C22_ConfidenceOnUnitScale ==
    pc = "done" => (0 <= ResultConfidence(result) /\ ResultConfidence(result) <= 100)

\* Position of the first record of an id in the store, 0 when there is none
StoredAt(meds, id) ==
    IF \E i \in DOMAIN meds : meds[i].id = id
    THEN CHOOSE i \in DOMAIN meds : meds[i].id = id /\ \A j \in 1..(i - 1) : meds[j].id # id
    ELSE 0

\* What C23 says of one answered POST
UpsertStep ==
    (reply'.op = "post" /\ reply'.status = 200) =>
        LET at == StoredAt(medications, reply'.medication.id)
        IN  IF at # 0
            THEN /\ reply'.action = "updated"
                 /\ medications' = [medications EXCEPT ![at] = reply'.medication]
            ELSE /\ reply'.action = "created"
                 /\ medications' = Append(medications, reply'.medication)

\* C23: the store never holds two records of one id; a POST of a stored id
\* replaces the record in place and reports 'updated', a POST of a new id
\* appends and reports 'created'.
C23_UpsertKeepsIdsUnique ==
    /\ [](\A i, j \in DOMAIN medications :
              medications[i].id = medications[j].id => i = j)
    /\ [][UpsertStep]_vars

\* C23's case: the first of three stored records was replaced in place
C23_Witness ==
    /\ reply.op = "post"
    /\ reply.action = "updated"
    /\ Len(medications) = 3
    /\ medications[1] = reply.medication
    /\ ~reply.medication.createdAt

\* What C24 says of one answered DELETE, and of a GET that follows it
DeleteStep ==
    LET id == [type |-> "str", value |-> reply'.id]
        Other(m) == m.id # id
    IN  /\ reply'.op = "delete" =>
              IF StoredAt(medications, id) # 0
              THEN /\ reply'.status = 200
                   /\ medications' = SelectSeq(medications, Other)
                   /\ StoredAt(medications', id) = 0
              ELSE /\ reply'.status = 404
                   /\ medications' = medications
        /\ (reply'.op = "get" /\ reply.op = "delete" /\ reply.status = 200
              /\ reply'.id = reply.id) => reply'.status = 404

RotationExitedEarly ==
    /\ opc \notin {"rotations", "rotation_wait", "rotation_loop", "error"}
    /\ best_rotation.conf > RotationEarlyExit

\* The ensemble loop has ended on its early exit
EnsembleExitedEarly ==
    /\ opc = "picked"
    /\ \E i \in DOMAIN results : results[i].conf > EnsembleEarlyExit

\* No task of the given phase goes from pending to running in the step, and
\* the step leaves the phase's selection and score table alone
PhaseLeftAlone(tasks, table) ==
    /\ \A t \in Range(tasks) : future[t].state = "PENDING" => future'[t].state # "RUNNING"
    /\ table' = table

\* C25: after the early exit of a phase none of its unstarted tasks starts,
\* and a task that ends later changes neither the selection nor the scores.
C25_ExitDropsUnstarted ==
    [][/\ RotationExitedEarly =>
             PhaseLeftAlone(RotationTasks, <<best_rotation, rotation_scores>>)
       /\ EnsembleExitedEarly =>
             PhaseLeftAlone(EnsembleTasks, <<best_result, results>>)]_vars

\* The ensemble half of C25 on its own
C25_EnsembleHalf ==
    [][EnsembleExitedEarly =>
          PhaseLeftAlone(EnsembleTasks, <<best_result, results>>)]_vars

\* Index of the first entry of maximal confidence in a list of collected
\* candidates, in the order the collector received them
FirstOfMax(cs) ==
    CHOOSE i \in DOMAIN cs :
        /\ \A j \in DOMAIN cs : cs[j].conf <= cs[i].conf
        /\ \A j \in 1..(i - 1) : cs[j].conf < cs[i].conf

NoHighRotation == \A i \in DOMAIN rotation_scores : rotation_scores[i].conf <= RotationEarlyExit

ModelUnavailable == service # "up"

\* The generative model is available and every call made to it was answered
\* with malformed JSON
ModelMalformed == service = "up" /\ generate_calls > 0 /\ response.shape = "malformed"

\* C29: for the same text, fallback input and policy, hybrid_parse returns
\* with a malformed model response what it returns with the model
\* unavailable: in both cases the fallback input when there is one, the
\* all-failed result otherwise.
C29_MalformedAsUnavailable ==
    (pc = "done" /\ (ModelUnavailable \/ ModelMalformed)) => result = FinalFallback

\* C29's case: the model was preferred, answered with malformed JSON, and
\* the low-confidence fallback input was returned
C29_Witness ==
    /\ pc = "done"
    /\ ModelMalformed
    /\ prefer_llm
    /\ result.kind = "regex"
    /\ ~RegexGoodEnough(regex_result, ConfidenceThreshold)

\* C30: when hybrid_parse returned an accepted generative result, the answer
\* of /ocr/detailed carries that field map, the winning text and a
\* confidence, whichever fields the map has.
C30_AcceptedMapDelivered ==
    [][(spc = "parsing" /\ pc = "done" /\ result.kind = "llm" /\ spc' = "responded") =>
          /\ http'.success
          /\ http'.has_parsed
          /\ http'.parsed = result.dict
          /\ http'.text = best_result.text]_vars

\* C30 for the accepted maps that name the patient or the drug
C30_DeliveredWhenNamed ==
    [][(spc = "parsing" /\ pc = "done" /\ result.kind = "llm" /\ spc' = "responded"
          /\ {"patientName", "drugName"} \cap DOMAIN result.dict # {}) =>
          /\ http'.success
          /\ http'.has_parsed
          /\ http'.parsed = result.dict
          /\ http'.text = best_result.text]_vars

\* The call returned on a parsed object that proposes a value under key
ProposedIn(key) ==
    /\ pc = "returned"
    /\ service = "up"
    /\ ~response.raises
    /\ response.shape \in OkShapes
    /\ key \in DOMAIN response.parsed
    /\ IsValue(response.parsed[key])

\* The call ended in the normalization step, which only a validated drugName
\* reaches
RaisedAfterValidation ==
    llm_result = ErrorDict(<<"'int' object has no attribute 'upper'">>)

\* C31: a proposed drugName survives validation if and only if its first
\* token has at least 5 characters and the first 5 characters of that token
\* occur, case-insensitively, in the recognized text.
C31_DrugNameSurvivesIffPrefixFound ==
    ProposedIn("drugName") =>
        LET tokens == Split(Upper(Str(response.parsed["drugName"])))
        IN  ("drugName" \in DOMAIN llm_result \/ RaisedAfterValidation)
            <=> /\ Len(tokens) > 0
                /\ Len(tokens[1]) >= 5
                /\ In(Prefix(tokens[1], 5), Upper(ocr_text))

\* C31's case: a mixed-case name of exactly five letters was kept because the
\* label has a word starting with them
C31_Witness ==
    /\ ProposedIn("drugName")
    /\ response.parsed["drugName"] = <<"P","r","e","d","n">>
    /\ "drugName" \in DOMAIN llm_result

\* The overlap the best_match loop scores a shortlist name with, 0 when
\* neither name contains the other
Overlap(db_drug, extracted_drug) ==
    IF In(Upper(db_drug), extracted_drug) \/ In(extracted_drug, Upper(db_drug))
    THEN Min(Len(db_drug), Len(extracted_drug))
    ELSE 0

\* The shortlist positions that qualify for a validated drug name
Qualifying(shortlist, extracted_drug) ==
    {i \in DOMAIN shortlist : Overlap(shortlist[i], extracted_drug) > MinOverlap}

\* The qualifying position among S with the largest overlap, the
\* higher-ranked one on a tie
LargestOverlap(S, shortlist, extracted_drug) ==
    CHOOSE i \in S :
        \A j \in S :
            \/ Overlap(shortlist[j], extracted_drug) < Overlap(shortlist[i], extracted_drug)
            \/ (Overlap(shortlist[j], extracted_drug) = Overlap(shortlist[i], extracted_drug)
                    /\ i <= j)

\* A drugName that is a str came back from the call
DrugNameReturned ==
    /\ ProposedIn("drugName")
    /\ ~IsNumber(response.parsed["drugName"])
    /\ "drugName" \in DOMAIN llm_result

\* C32: the returned drugName is the validated value itself or, when
\* shortlist names contain or are contained in it with an overlap of more
\* than 5 characters, the one of them with the largest overlap, the
\* higher-ranked one on a tie.
C32_LargestOverlapOfShortlist ==
    DrugNameReturned =>
        LET shortlist == get_relevant_drugs(ocr_text, ShortlistSize, DRUG_DATABASE.names)
            extracted_drug == Upper(response.parsed["drugName"])
            S == Qualifying(shortlist, extracted_drug)
        IN  IF S = {} THEN llm_result["drugName"] = response.parsed["drugName"]
            ELSE llm_result["drugName"] = shortlist[LargestOverlap(S, shortlist, extracted_drug)]

\* C32 for the shortlist positions the loop looks at
C32_LargestOverlapOfFirstTen ==
    DrugNameReturned =>
        LET shortlist == get_relevant_drugs(ocr_text, ShortlistSize, DRUG_DATABASE.names)
            extracted_drug == Upper(response.parsed["drugName"])
            S == Qualifying(shortlist, extracted_drug) \cap (1..ShortlistForMatch)
        IN  IF S = {} THEN llm_result["drugName"] = response.parsed["drugName"]
            ELSE llm_result["drugName"] = shortlist[LargestOverlap(S, shortlist, extracted_drug)]

\* A name was replaced by a shortlist name
C32_Replaced ==
    /\ DrugNameReturned
    /\ llm_result["drugName"] # response.parsed["drugName"]

\* C33: a proposed patientName survives validation if and only if one of its
\* tokens longer than 2 characters occurs, case-insensitively, within the
\* first 200 characters of the recognized text; an occurrence after
\* character 200 does not count.
C33_PatientNameSurvivesIffInWindow ==
    ProposedIn("patientName") =>
        LET tokens == Split(Upper(Str(response.parsed["patientName"])))
            window == Prefix(Upper(ocr_text), PatientNameWindow)
        IN  "patientName" \in DOMAIN llm_result
            <=> \E i \in DOMAIN tokens : Len(tokens[i]) > 2 /\ In(tokens[i], window)

\* C33's case: the name on the label starts after character 200 and the
\* proposed name was dropped
C33_Witness ==
    /\ ProposedIn("patientName")
    /\ ocr_text = PaddedText
    /\ In(Upper(response.parsed["patientName"]), Upper(ocr_text))
    /\ "patientName" \notin DOMAIN llm_result

\* A mixed-case name kept on the evidence of its one long token
C33_KeptInWindow ==
    /\ ProposedIn("patientName")
    /\ response.parsed["patientName"] = <<"J","o"," ","S","m","i","t","h">>
    /\ "patientName" \in DOMAIN llm_result

\* A call returned on a parsed object
ParsedObjectReturned ==
    /\ pc = "returned"
    /\ service = "up"
    /\ ~response.raises
    /\ response.shape \in OkShapes

\* What the same call returns when the model proposes the field key alone,
\* with the same value
FieldAlone(key) ==
    parse_with_llm(ocr_text, TRUE,
                   [response EXCEPT !.parsed = [k \in {key} |-> response.parsed[key]]],
                   DRUG_DATABASE.names)

\* C34: for a fixed recognized text the outcome of a field depends only on
\* that field's own input value: it is what the field gets when it is
\* proposed alone, whatever the other fields are and whether they fail.
C34_FieldOutcomeIndependent ==
    ParsedObjectReturned =>
        \A key \in DOMAIN response.parsed :
            Get(llm_result, key) = Get(FieldAlone(key), key)

\* C34 for the objects whose drugName, if any, is a str
C34_IndependentWhenDrugNameIsStr ==
    (ParsedObjectReturned /\ ~IsNumber(Get(response.parsed, "drugName"))) =>
        \A key \in DOMAIN response.parsed :
            Get(llm_result, key) = Get(FieldAlone(key), key)

\* A null, an empty string or the string "null" in any case
IsNullInput(value) == value = None \/ value = <<>> \/ Lower(Str(value)) = NullStr

\* C35: for every parsed model output, a field whose input value is null,
\* empty or the string "null" has no value in the returned map, and every
\* key of the returned map is one of the thirteen schema fields.
C35_NullsDroppedKeysInSchema ==
    ParsedObjectReturned =>
        /\ \A key \in DOMAIN response.parsed :
               IsNullInput(response.parsed[key]) => key \notin DOMAIN llm_result
        /\ DOMAIN llm_result \subseteq SchemaFields

\* The first half of C35 on its own
C35_NullsDropped ==
    ParsedObjectReturned =>
        \A key \in DOMAIN response.parsed :
            IsNullInput(response.parsed[key]) => key \notin DOMAIN llm_result

\* The second half of C35 with the keys the call adds itself: confidence on
\* every field map, error in place of the map when normalization raised
C35_KeysInSchemaOrAdded ==
    ParsedObjectReturned =>
        \/ DOMAIN llm_result \subseteq SchemaFields \cup {"confidence"}
        \/ RaisedAfterValidation

\* The score log has exactly one entry for each of the given candidates
OneEntryEach(log, tasks) ==
    /\ Len(log) = Len(tasks)
    /\ \A t \in Range(tasks) : \E i \in DOMAIN log : log[i].name = t

\* C36: when the orientation phase ends, its score log holds exactly one
\* entry for each of the four rotation candidates, for every completion
\* order including those that trigger the early exit.
C36_LogHoldsAllFour ==
    opc = "rotation_done" => OneEntryEach(rotation_scores, RotationTasks)

\* C36 for the phases that end without a probe above 90
C36_LogHoldsAllFourOnFullSearch ==
    (opc = "rotation_done" /\ NoHighRotation) =>
        OneEntryEach(rotation_scores, RotationTasks)

\* What the log holds in every case: one entry for each collected probe, the
\* last of them above 90 when there are fewer than four
C36_LogHoldsCollected ==
    opc = "rotation_done" =>
        /\ \A i, j \in DOMAIN rotation_scores :
               rotation_scores[i].name = rotation_scores[j].name => i = j
        /\ \A i \in DOMAIN rotation_scores :
               /\ rotation_scores[i].name \in Range(RotationTasks)
               /\ future[rotation_scores[i].name].state = "FINISHED"
               /\ rotation_scores[i].conf = future[rotation_scores[i].name].conf
        /\ Len(rotation_scores) < Len(RotationTasks) =>
               rotation_scores[Len(rotation_scores)].conf > RotationEarlyExit

\* C37: in a single call to hybrid_parse the generative extractor is invoked
\* at most once, under either policy and for every availability and
\* fallback input.
C37_ExtractorInvokedAtMostOnce == generate_calls <= 1

\* C37's case: the model was preferred and called, its answer was not
\* accepted, and the call ended on the low-confidence fallback input without
\* a second invocation
C37_Witness ==
    /\ pc = "done"
    /\ prefer_llm
    /\ generate_calls = 1
    /\ result.kind = "regex"
    /\ ~RegexGoodEnough(regex_result, ConfidenceThreshold)

\* The other policy: the one invocation is the fallback call
C37_FallbackCall ==
    /\ pc = "done"
    /\ ~prefer_llm
    /\ generate_calls = 1

\* Every concurrent POST has been answered
AllAnswered == \A w \in Writers : posts[w].pc = "answered"

\* C38: for every interleaving of concurrent POST /api/medications requests
\* with distinct ids, each request answered with success has its record in
\* the store once all requests have finished.
C38_NoAcknowledgedWriteLost ==
    AllAnswered =>
        \A w \in Writers :
            \E i \in DOMAIN medications : medications[i].id = posts[w].data.id

\* What the store holds once all requests have finished: the list one of the
\* requests saved, with that request's record in it
C38_StoreIsOneRequestsList ==
    AllAnswered =>
        \E w \in Writers :
            /\ medications = posts[w].medications
            /\ \E i \in DOMAIN medications : medications[i] = posts[w].data

\* A step of the manager keeps its discipline:
\*   the active set changes only in a step of the thread holding the lock;
\*   broadcast sends only to connections of its snapshot;
\*   a disconnect of a connection that is no longer in the set changes
\*   nothing and ends normally;
\*   when broadcast returns, none of the connections it found dead is in
\*   the set.
ManagerStep ==
    /\ active_connections' # active_connections => lock # "free"
    /\ broadcasting'.sent \ broadcasting.sent \subseteq broadcasting.conns
    /\ \A ws \in WebSockets :
           (sockets[ws].pc = "open" /\ sockets'[ws].pc # "open"
                /\ ws \notin active_connections) =>
               /\ active_connections' = active_connections
               /\ sockets'[ws].pc = "closed"
    /\ (broadcasting.pc # "returned" /\ broadcasting'.pc = "returned") =>
           broadcasting.dead \cap active_connections' = {}

\* C39: under every interleaving of connect, disconnect and broadcast, the
\* active-connection set is changed only while the lock is held, a broadcast
\* sends only to the connections in its snapshot, removing an
\* already-removed connection is a no-op, and when a broadcast returns no
\* connection it found dead is still in the active set.
C39_ManagerKeepsItsDiscipline == [][ManagerStep]_vars

\* C39's case: a broadcast has returned after finding a connection dead, and
\* that connection's handler has run disconnect as well, one of the two
\* finding it already removed
C39_Witness ==
    /\ broadcasting.pc = "returned"
    /\ \E ws \in broadcasting.dead :
           /\ sockets[ws].pc = "closed"
           /\ ws \notin active_connections
    /\ \E ws \in WebSockets : ws \in active_connections

====
